---- MODULE Spec2Model ----
(***************************************************************************)
(* A model of the rust-id3 library (sp3d/rust-id3): the ID3v2 byte codec   *)
(* primitives, the field and frame codecs, the frame format catalog and    *)
(* the ID3v2 tag model with its mutators and its version conversion.       *)
(*                                                                         *)
(* Bytes are the naturals 0..255, byte strings are sequences of bytes, and *)
(* frame identifiers are byte strings of length 3 (ID3v2.2) or 4.          *)
(* Several specifications share the variables; each one drives one part    *)
(* of the library and leaves the variables of the other parts alone.       *)
(***************************************************************************)
EXTENDS Naturals, Integers, Sequences, FiniteSets, TLC

VARIABLES
    pc,         \* position of the driver of the specification in use
    version,    \* Tag.version
    frames,     \* Tag.frames, in order; each frame also carries a ghost uid
    nextUid,    \* ghost: the uid the next frame pushed on the tag receives
    last,       \* ghost: the mutator that ran last, its arguments and result
    trail,      \* ghost: the tag before each of the last convert_version calls
    raw,        \* the byte string handed to the unsynchronization iterators
    ui,         \* UnsyncIter { underlying (as a position in raw), next_byte, last_was_ff }
    unsynced,   \* the bytes UnsyncIter has yielded so far
    di,         \* DeUnsyncIter { underlying (as a position in unsynced), last_was_ff }
    resynced,   \* the bytes DeUnsyncIter has yielded so far
    subject,    \* the frame or tag handed to the serializer
    stream,     \* the bytes written, or the bytes handed to the parser
    outcome     \* what the parser returned

vars == <<pc, version, frames, nextUid, last, trail, raw, ui, unsynced, di,
          resynced, subject, stream, outcome>>

tagVars    == <<version, frames, nextUid, last, trail>>
unsyncVars == <<raw, ui, unsynced, di, resynced>>
codecVars  == <<subject, stream, outcome>>

-----------------------------------------------------------------------------
(* Bounds of the model. *)

\* longest byte string handed to the unsynchronization iterators
MaxLen == 4
\* most frames a tag of the tag machine holds
MaxFrames == 2
\* most frames ever pushed on the tag of the tag machine
MaxUid == 3
\* most strings in a list field handed to the field codec
MaxStrings == 2
\* most frames of a tag handed to the tag codec
MaxTagFrames == 2

-----------------------------------------------------------------------------
(* Bytes and integers of fixed width. *)

Byte == 0..255

\* the absent value of a ghost
None == [none |-> TRUE]

\* Option<T>: None, and Some(value)
NoneOpt == [some |-> FALSE]
Some(value) == [some |-> TRUE, value |-> value]

Pow2(k) == 2 ^ k

\* The model checker computes with integers below 2^31, so a u32 is modelled
\* for the values below 2^31; the inputs drawn keep every u32 in that range
\* (a leading size byte is at most 0x7F), and a value that left it would stop
\* the run with an overflow error instead of being truncated.

\* n >> k, and n << k (the product stays below 2^31 for the values modelled)
Shr(n, k) == n \div Pow2(k)
Shl32(n, k) == n * Pow2(k)

\* n & mask for the mask with the bits lo..hi-1 set, and with the bits lo..31 set
Bits(n, lo, hi) == ((n % Pow2(hi)) \div Pow2(lo)) * Pow2(lo)
HighBits(n, lo) == (n \div Pow2(lo)) * Pow2(lo)

Min(a, b) == IF a < b THEN a ELSE b

\* the first n elements of s (all of s when it is shorter) and the rest
Take(s, n) == SubSeq(s, 1, Min(n, Len(s)))
Drop(s, n) == SubSeq(s, Min(n, Len(s)) + 1, Len(s))

\* all sequences over S of length at most n
SeqsUpTo(S, n) == UNION {[1..k -> S] : k \in 0..n}

RECURSIVE Concat(_)
Concat(ss) == IF ss = <<>> THEN <<>> ELSE Head(ss) \o Concat(Tail(ss))

-----------------------------------------------------------------------------
(* util.rs: synchsafe integers. *)

\* only the first of the three spreading steps
synchsafe_once(n) == Bits(n, 0, 7) + Shl32(HighBits(n, 7), 1)

synchsafe(n) ==
    LET x1 == Bits(n, 0, 7) + Shl32(HighBits(n, 7), 1)
        x2 == Bits(x1, 0, 15) + Shl32(HighBits(x1, 15), 1)
        x3 == Bits(x2, 0, 23) + Shl32(HighBits(x2, 23), 1)
    IN  x3

\* the four masked and shifted parts are OR-ed; OR of the parts is computed
\* bit by bit since the shifted parts may overlap when a high bit is set
BitAt(n, i) == (n \div Pow2(i)) % 2

OrAll(parts) ==
    LET bit(i) == IF \E p \in parts : BitAt(p, i) = 1 THEN Pow2(i) ELSE 0
        RECURSIVE sum(_)
        sum(i) == IF i < 0 THEN 0 ELSE bit(i) + sum(i - 1)
    IN  sum(30)

unsynchsafe(n) ==
    OrAll({Bits(n, 0, 8), Shr(Bits(n, 8, 16), 1), Shr(Bits(n, 16, 24), 2),
           Shr(HighBits(n, 24), 3)})

u32_to_bytes(n) ==
    <<Shr(HighBits(n, 24), 24), Shr(Bits(n, 16, 24), 16), Shr(Bits(n, 8, 16), 8),
      Bits(n, 0, 8)>>

\* byteorder's read_u32::<BigEndian> and the read_be_u32! macro, on four bytes
be_u32(b) == b[1] * Pow2(24) + b[2] * Pow2(16) + b[3] * Pow2(8) + b[4]

-----------------------------------------------------------------------------
(* id3v2/frame/unsync.rs: the unsynchronization iterators.  An iterator    *)
(* over a byte string is a position in it; a call of next() is one step.   *)

\* Option<u8>::None, beside the bytes
NoByte == 0 - 1

\* UnsyncIter::next without the zero that follows a trailing 0xFF
UnsyncIter_next_no_trailer(it, src) ==
    IF it.next_byte # NoByte
    THEN [it |-> [it EXCEPT !.next_byte = NoByte], ret |-> it.next_byte]
    ELSE IF it.pos <= Len(src)
         THEN LET x == src[it.pos]
              IN  IF it.last_was_ff /\ (x = 0 \/ Bits(x, 5, 8) = 224)
                  THEN [it |-> [pos |-> it.pos + 1, next_byte |-> x,
                                last_was_ff |-> (x = 255)],
                        ret |-> 0]
                  ELSE [it |-> [pos |-> it.pos + 1, next_byte |-> NoByte,
                                last_was_ff |-> (x = 255)],
                        ret |-> x]
         ELSE [it |-> it, ret |-> NoByte]

\* UnsyncIter::next: the iterator after the call and the Option<u8> returned
UnsyncIter_next(it, src) ==
    IF it.next_byte # NoByte
    THEN [it |-> [it EXCEPT !.next_byte = NoByte], ret |-> it.next_byte]
    ELSE IF it.pos <= Len(src)
         THEN LET x == src[it.pos]
              IN  IF it.last_was_ff /\ (x = 0 \/ Bits(x, 5, 8) = 224)
                  THEN [it |-> [pos |-> it.pos + 1, next_byte |-> x,
                                last_was_ff |-> (x = 255)],
                        ret |-> 0]
                  ELSE [it |-> [pos |-> it.pos + 1, next_byte |-> NoByte,
                                last_was_ff |-> (x = 255)],
                        ret |-> x]
         ELSE IF it.last_was_ff
              THEN [it |-> [it EXCEPT !.last_was_ff = FALSE], ret |-> 0]
              ELSE [it |-> it, ret |-> NoByte]

\* DeUnsyncIter::next
DeUnsyncIter_next(it, src) ==
    IF it.pos <= Len(src)
    THEN LET x == src[it.pos]
         IN  IF it.last_was_ff /\ x = 0
             THEN \* the zero is dropped and the next item of the underlying
                  \* iterator is returned as it is; last_was_ff is not touched
                  IF it.pos + 1 <= Len(src)
                  THEN [it |-> [it EXCEPT !.pos = it.pos + 2], ret |-> src[it.pos + 1]]
                  ELSE [it |-> [it EXCEPT !.pos = it.pos + 1], ret |-> NoByte]
             ELSE [it |-> [pos |-> it.pos + 1, last_was_ff |-> (x = 255)], ret |-> x]
    ELSE [it |-> it, ret |-> NoByte]

unsynchronized == [pos |-> 1, next_byte |-> NoByte, last_was_ff |-> FALSE]
deunsynchronized == [pos |-> 1, last_was_ff |-> FALSE]

\* collect::<Vec<u8>>() of each iterator
RECURSIVE CollectUnsync(_, _)
CollectUnsync(it, src) ==
    LET r == UnsyncIter_next(it, src)
    IN  IF r.ret = NoByte THEN <<>> ELSE <<r.ret>> \o CollectUnsync(r.it, src)

RECURSIVE CollectDeUnsync(_, _)
CollectDeUnsync(it, src) ==
    LET r == DeUnsyncIter_next(it, src)
    IN  IF r.ret = NoByte THEN <<>> ELSE <<r.ret>> \o CollectDeUnsync(r.it, src)

unsynchronize(data) == CollectUnsync(unsynchronized, data)
resynchronize(data) == CollectDeUnsync(deunsynchronized, data)

-----------------------------------------------------------------------------
(* id3v2/mod.rs, id3v2/frame/encoding.rs: versions and text encodings.     *)

Versions == {"V2", "V3", "V4"}

\* enum Version { V2 = 2, V3 = 3, V4 = 4 }, which derives PartialOrd
VersionNum(v) == CASE v = "V2" -> 2 [] v = "V3" -> 3 [] v = "V4" -> 4

Encodings == {"Latin1", "UTF16", "UTF16BE", "UTF8"}

\* `encoding as u8`
EncodingByte(e) ==
    CASE e = "Latin1" -> 0 [] e = "UTF16" -> 1 [] e = "UTF16BE" -> 2 [] e = "UTF8" -> 3

\* Encoding::from_u8; "none" is Option::None
from_u8(n) ==
    CASE n = 0 -> "Latin1" [] n = 1 -> "UTF16" [] n = 2 -> "UTF16BE" [] n = 3 -> "UTF8"
      [] OTHER -> "none"

default_encoding(v) == IF VersionNum(v) >= 4 THEN "UTF8" ELSE "UTF16"

encoding_compatible(v, encoding) ==
    IF VersionNum(v) >= 4 THEN TRUE ELSE encoding = "UTF16" \/ encoding = "Latin1"

-----------------------------------------------------------------------------
(* util.rs: strings.  A string is the sequence of its code points, all of  *)
(* them below 0x800, so that a code point is one UTF-16 unit and at most   *)
(* two UTF-8 bytes.                                                        *)

\* str::as_bytes: the UTF-8 bytes of a string
RECURSIVE as_bytes(_)
as_bytes(s) ==
    IF s = <<>> THEN <<>>
    ELSE (IF Head(s) < 128 THEN <<Head(s)>>
          ELSE <<192 + (Head(s) \div 64), 128 + (Head(s) % 64)>>) \o as_bytes(Tail(s))

RECURSIVE string_to_utf16be(_)
string_to_utf16be(text) ==
    IF text = <<>> THEN <<>>
    ELSE <<Shr(Bits(Head(text), 8, 16), 8), Bits(Head(text), 0, 8)>>
         \o string_to_utf16be(Tail(text))

RECURSIVE string_to_utf16le(_)
string_to_utf16le(text) ==
    IF text = <<>> THEN <<>>
    ELSE <<Bits(Head(text), 0, 8), Shr(Bits(Head(text), 8, 16), 8)>>
         \o string_to_utf16le(Tail(text))

\* the target is little endian: the byte order mark is FF FE
string_to_utf16(text) == <<255, 254>> \o string_to_utf16le(text)

\* the bytes returned, or the panic of the call: Latin1 goes through
\* to_ascii(), which panics on a string that is not ASCII
encode_string(s, encoding) ==
    CASE encoding = "Latin1" ->
           IF \A i \in 1..Len(s) : s[i] < 128
           THEN [panic |-> FALSE, bytes |-> s]
           ELSE [panic |-> TRUE, bytes |-> <<>>]
      [] encoding = "UTF8" -> [panic |-> FALSE, bytes |-> as_bytes(s)]
      [] encoding = "UTF16" -> [panic |-> FALSE, bytes |-> string_to_utf16(s)]
      [] encoding = "UTF16BE" -> [panic |-> FALSE, bytes |-> string_to_utf16be(s)]

\* String::from_utf8(..).ok(), on sequences of one and two bytes
RECURSIVE from_utf8(_)
from_utf8(data) ==
    IF data = <<>> THEN Some(<<>>)
    ELSE IF Head(data) < 128
         THEN LET rest == from_utf8(Tail(data))
              IN  IF rest.some THEN Some(<<Head(data)>> \o rest.value) ELSE NoneOpt
         ELSE IF Head(data) >= 194 /\ Head(data) < 224 /\ Len(data) >= 2
                 /\ data[2] >= 128 /\ data[2] < 192
              THEN LET rest == from_utf8(Tail(Tail(data)))
                   IN  IF rest.some
                       THEN Some(<<(Head(data) - 192) * 64 + (data[2] - 128)>> \o rest.value)
                       ELSE NoneOpt
              ELSE NoneOpt

RECURSIVE TakeWhileNonZero(_)
TakeWhileNonZero(data) ==
    IF data = <<>> \/ Head(data) = 0 THEN <<>>
    ELSE <<Head(data)>> \o TakeWhileNonZero(Tail(data))

string_from_utf8(data) == from_utf8(TakeWhileNonZero(data))

\* String::from_utf16 on units that are no surrogates
RECURSIVE string_from_utf16be(_)
string_from_utf16be(data) ==
    IF Len(data) % 2 # 0 THEN NoneOpt
    ELSE IF data = <<>> THEN Some(<<>>)
    ELSE LET unit == data[1] * 256 + data[2]
             rest == string_from_utf16be(Tail(Tail(data)))
         IN  IF ~rest.some \/ (unit >= 55296 /\ unit < 57344) THEN NoneOpt
             ELSE Some(<<unit>> \o rest.value)

RECURSIVE string_from_utf16le(_)
string_from_utf16le(data) ==
    IF Len(data) % 2 # 0 THEN NoneOpt
    ELSE IF data = <<>> THEN Some(<<>>)
    ELSE LET unit == data[1] + data[2] * 256
             rest == string_from_utf16le(Tail(Tail(data)))
         IN  IF ~rest.some \/ (unit >= 55296 /\ unit < 57344) THEN NoneOpt
             ELSE Some(<<unit>> \o rest.value)

string_from_utf16(data) ==
    IF Len(data) < 2 \/ Len(data) % 2 # 0 THEN NoneOpt
    ELSE IF data[1] = 255 /\ data[2] = 254
         THEN string_from_utf16le(Drop(data, 2))
         ELSE string_from_utf16be(Drop(data, 2))

string_from_encoding(encoding, data) ==
    CASE encoding \in {"Latin1", "UTF8"} -> string_from_utf8(data)
      [] encoding = "UTF16" -> string_from_utf16(data)
      [] encoding = "UTF16BE" -> string_from_utf16be(data)

delim(encoding) == IF encoding \in {"Latin1", "UTF8"} THEN <<0>> ELSE <<0, 0>>

delim_len(encoding) == IF encoding \in {"Latin1", "UTF8"} THEN 1 ELSE 2

-----------------------------------------------------------------------------
(* id3v2/frame/frameinfo.rs: the frame format catalog and the rename       *)
(* tables, entry by entry.  A phf::Map is the set of its entries.          *)

FRAME_INFO_V2 ==
    {[key |-> <<66, 85, 70>>, value |-> <<"Int24", "Int8", "Int32">>],  \* BUF
     [key |-> <<67, 78, 84>>, value |-> <<"Int32Plus">>],  \* CNT
     [key |-> <<67, 79, 77>>, value |-> <<"TextEncoding", "Language", "String", "String">>],  \* COM
     [key |-> <<67, 82, 65>>, value |-> <<"String", "Int16", "Int16", "BinaryData">>],  \* CRA
     [key |-> <<67, 82, 77>>, value |-> <<"String", "String", "BinaryData">>],  \* CRM
     [key |-> <<69, 84, 67>>, value |-> <<"Int8", "BinaryData">>],  \* ETC
     [key |-> <<69, 81, 85>>, value |-> <<"Int8", "BinaryData">>],  \* EQU
     [key |-> <<71, 69, 79>>, value |-> <<"TextEncoding", "Latin1", "String", "String", "BinaryData">>],  \* GEO
     [key |-> <<73, 80, 76>>, value |-> <<"TextEncoding", "StringList">>],  \* IPL
     [key |-> <<76, 78, 75>>, value |-> <<"FrameIdV2", "String", "StringList">>],  \* LNK
     [key |-> <<77, 67, 73>>, value |-> <<"BinaryData">>],  \* MCI
     [key |-> <<77, 76, 76>>, value |-> <<"Int16", "Int24", "Int24", "Int8", "Int8", "BinaryData">>],  \* MLL
     [key |-> <<80, 73, 67>>, value |-> <<"TextEncoding", "Int24", "Int8", "String", "BinaryData">>],  \* PIC
     [key |-> <<80, 79, 80>>, value |-> <<"Latin1", "Int8", "Int32Plus">>],  \* POP
     [key |-> <<82, 69, 86>>, value |-> <<"Int16", "Int16", "Int8", "Int8", "Int8", "Int8", "Int8", "Int8", "Int8", "Int8">>],  \* REV
     [key |-> <<82, 86, 65>>, value |-> <<"Int8", "Int8", "BinaryData">>],  \* RVA
     [key |-> <<83, 76, 84>>, value |-> <<"TextEncoding", "Language", "Int8", "Int8", "String", "BinaryData">>],  \* SLT
     [key |-> <<83, 84, 67>>, value |-> <<"Int8", "BinaryData">>],  \* STC
     [key |-> <<84, 65, 76>>, value |-> <<"TextEncoding", "String">>],  \* TAL
     [key |-> <<84, 66, 80>>, value |-> <<"TextEncoding", "String">>],  \* TBP
     [key |-> <<84, 67, 77>>, value |-> <<"TextEncoding", "String">>],  \* TCM
     [key |-> <<84, 67, 79>>, value |-> <<"TextEncoding", "String">>],  \* TCO
     [key |-> <<84, 67, 82>>, value |-> <<"TextEncoding", "String">>],  \* TCR
     [key |-> <<84, 68, 65>>, value |-> <<"TextEncoding", "String">>],  \* TDA
     [key |-> <<84, 68, 89>>, value |-> <<"TextEncoding", "String">>],  \* TDY
     [key |-> <<84, 69, 78>>, value |-> <<"TextEncoding", "String">>],  \* TEN
     [key |-> <<84, 70, 84>>, value |-> <<"TextEncoding", "String">>],  \* TFT
     [key |-> <<84, 73, 77>>, value |-> <<"TextEncoding", "String">>],  \* TIM
     [key |-> <<84, 75, 69>>, value |-> <<"TextEncoding", "String">>],  \* TKE
     [key |-> <<84, 76, 65>>, value |-> <<"TextEncoding", "String">>],  \* TLA
     [key |-> <<84, 76, 69>>, value |-> <<"TextEncoding", "String">>],  \* TLE
     [key |-> <<84, 77, 84>>, value |-> <<"TextEncoding", "String">>],  \* TMT
     [key |-> <<84, 79, 65>>, value |-> <<"TextEncoding", "String">>],  \* TOA
     [key |-> <<84, 79, 70>>, value |-> <<"TextEncoding", "String">>],  \* TOF
     [key |-> <<84, 79, 76>>, value |-> <<"TextEncoding", "String">>],  \* TOL
     [key |-> <<84, 79, 82>>, value |-> <<"TextEncoding", "String">>],  \* TOR
     [key |-> <<84, 79, 84>>, value |-> <<"TextEncoding", "String">>],  \* TOT
     [key |-> <<84, 80, 49>>, value |-> <<"TextEncoding", "String">>],  \* TP1
     [key |-> <<84, 80, 50>>, value |-> <<"TextEncoding", "String">>],  \* TP2
     [key |-> <<84, 80, 51>>, value |-> <<"TextEncoding", "String">>],  \* TP3
     [key |-> <<84, 80, 52>>, value |-> <<"TextEncoding", "String">>],  \* TP4
     [key |-> <<84, 80, 65>>, value |-> <<"TextEncoding", "String">>],  \* TPA
     [key |-> <<84, 80, 66>>, value |-> <<"TextEncoding", "String">>],  \* TPB
     [key |-> <<84, 82, 67>>, value |-> <<"TextEncoding", "String">>],  \* TRC
     [key |-> <<84, 82, 68>>, value |-> <<"TextEncoding", "String">>],  \* TRD
     [key |-> <<84, 82, 75>>, value |-> <<"TextEncoding", "String">>],  \* TRK
     [key |-> <<84, 83, 73>>, value |-> <<"TextEncoding", "String">>],  \* TSI
     [key |-> <<84, 83, 83>>, value |-> <<"TextEncoding", "String">>],  \* TSS
     [key |-> <<84, 84, 49>>, value |-> <<"TextEncoding", "String">>],  \* TT1
     [key |-> <<84, 84, 50>>, value |-> <<"TextEncoding", "String">>],  \* TT2
     [key |-> <<84, 84, 51>>, value |-> <<"TextEncoding", "String">>],  \* TT3
     [key |-> <<84, 88, 84>>, value |-> <<"TextEncoding", "String">>],  \* TXT
     [key |-> <<84, 88, 88>>, value |-> <<"TextEncoding", "String">>],  \* TXX
     [key |-> <<84, 89, 69>>, value |-> <<"TextEncoding", "String">>],  \* TYE
     [key |-> <<85, 70, 73>>, value |-> <<"Latin1", "BinaryData">>],  \* UFI
     [key |-> <<85, 76, 84>>, value |-> <<"TextEncoding", "Language", "String", "StringFull">>],  \* ULT
     [key |-> <<87, 65, 70>>, value |-> <<"Latin1">>],  \* WAF
     [key |-> <<87, 65, 82>>, value |-> <<"Latin1">>],  \* WAR
     [key |-> <<87, 65, 83>>, value |-> <<"Latin1">>],  \* WAS
     [key |-> <<87, 67, 77>>, value |-> <<"Latin1">>],  \* WCM
     [key |-> <<87, 67, 80>>, value |-> <<"Latin1">>],  \* WCP
     [key |-> <<87, 80, 66>>, value |-> <<"Latin1">>],  \* WPB
     [key |-> <<87, 88, 88>>, value |-> <<"Latin1">>]}  \* WXX

FRAME_INFO_V3 ==
    {[key |-> <<69, 81, 85, 65>>, value |-> <<"Int8", "BinaryData">>],  \* EQUA
     [key |-> <<73, 80, 76, 83>>, value |-> <<"TextEncoding", "StringList">>],  \* IPLS
     [key |-> <<82, 86, 65, 68>>, value |-> <<"Int32", "Int8", "BinaryData">>]}  \* RVAD

FRAME_INFO_V4 ==
    {[key |-> <<65, 83, 80, 73>>, value |-> <<"Int32", "Int32", "Int16", "Int8", "BinaryData">>],  \* ASPI
     [key |-> <<69, 81, 85, 50>>, value |-> <<"Int8", "Latin1", "BinaryData">>],  \* EQU2
     [key |-> <<82, 86, 65, 50>>, value |-> <<"Latin1", "BinaryData">>],  \* RVA2
     [key |-> <<83, 69, 69, 75>>, value |-> <<"Int32">>],  \* SEEK
     [key |-> <<83, 73, 71, 78>>, value |-> <<"Int8", "BinaryData">>],  \* SIGN
     [key |-> <<84, 68, 69, 78>>, value |-> <<"TextEncoding", "StringList">>],  \* TDEN
     [key |-> <<84, 68, 79, 82>>, value |-> <<"TextEncoding", "StringList">>],  \* TDOR
     [key |-> <<84, 68, 82, 67>>, value |-> <<"TextEncoding", "StringList">>],  \* TDRC
     [key |-> <<84, 68, 82, 76>>, value |-> <<"TextEncoding", "StringList">>],  \* TDRL
     [key |-> <<84, 68, 84, 71>>, value |-> <<"TextEncoding", "StringList">>],  \* TDTG
     [key |-> <<84, 73, 80, 76>>, value |-> <<"TextEncoding", "StringList">>],  \* TIPL
     [key |-> <<84, 77, 67, 76>>, value |-> <<"TextEncoding", "StringList">>],  \* TMCL
     [key |-> <<84, 77, 79, 79>>, value |-> <<"TextEncoding", "StringList">>],  \* TMOO
     [key |-> <<84, 80, 82, 79>>, value |-> <<"TextEncoding", "StringList">>],  \* TPRO
     [key |-> <<84, 83, 79, 65>>, value |-> <<"TextEncoding", "StringList">>],  \* TSOA
     [key |-> <<84, 83, 79, 80>>, value |-> <<"TextEncoding", "StringList">>],  \* TSOP
     [key |-> <<84, 83, 79, 84>>, value |-> <<"TextEncoding", "StringList">>],  \* TSOT
     [key |-> <<84, 83, 83, 84>>, value |-> <<"TextEncoding", "StringList">>]}  \* TSST

FRAME_INFO_V34 ==
    {[key |-> <<65, 69, 78, 67>>, value |-> <<"Latin1", "Int16", "Int16", "BinaryData">>],  \* AENC
     [key |-> <<65, 80, 73, 67>>, value |-> <<"TextEncoding", "Latin1", "Int8", "String", "BinaryData">>],  \* APIC
     [key |-> <<67, 79, 77, 77>>, value |-> <<"TextEncoding", "Language", "String", "StringFull">>],  \* COMM
     [key |-> <<67, 79, 77, 82>>, value |-> <<"TextEncoding", "Latin1", "Latin1", "Latin1", "Int8", "String", "String", "Latin1", "BinaryData">>],  \* COMR
     [key |-> <<69, 78, 67, 82>>, value |-> <<"Latin1", "Int8", "BinaryData">>],  \* ENCR
     [key |-> <<69, 84, 67, 79>>, value |-> <<"Int8", "BinaryData">>],  \* ETCO
     [key |-> <<71, 69, 79, 66>>, value |-> <<"TextEncoding", "Latin1", "String", "String", "BinaryData">>],  \* GEOB
     [key |-> <<71, 82, 73, 68>>, value |-> <<"Latin1", "Int8", "BinaryData">>],  \* GRID
     [key |-> <<76, 73, 78, 75>>, value |-> <<"FrameIdV34", "Latin1", "Latin1List">>],  \* LINK
     [key |-> <<77, 67, 68, 73>>, value |-> <<"BinaryData">>],  \* MCDI
     [key |-> <<77, 76, 76, 84>>, value |-> <<"Int16", "Int24", "Int24", "Int8", "Int8", "BinaryData">>],  \* MLLT
     [key |-> <<79, 87, 78, 69>>, value |-> <<"TextEncoding", "Latin1", "Latin1", "String">>],  \* OWNE
     [key |-> <<80, 82, 73, 86>>, value |-> <<"Latin1", "BinaryData">>],  \* PRIV
     [key |-> <<80, 67, 78, 84>>, value |-> <<"Int32Plus">>],  \* PCNT
     [key |-> <<80, 79, 80, 77>>, value |-> <<"Latin1", "Int8", "Int32Plus">>],  \* POPM
     [key |-> <<80, 79, 83, 83>>, value |-> <<"Int8", "BinaryData">>],  \* POSS
     [key |-> <<82, 66, 85, 70>>, value |-> <<"Int24", "Int8", "Int32">>],  \* RBUF
     [key |-> <<82, 86, 82, 66>>, value |-> <<"Int16", "Int16", "Int8", "Int8", "Int8", "Int8", "Int8", "Int8", "Int8", "Int8">>],  \* RVRB
     [key |-> <<83, 89, 76, 84>>, value |-> <<"TextEncoding", "Language", "Int8", "Int8", "String", "BinaryData">>],  \* SYLT
     [key |-> <<83, 89, 84, 67>>, value |-> <<"Int8", "BinaryData">>],  \* SYTC
     [key |-> <<84, 65, 76, 66>>, value |-> <<"TextEncoding", "StringList">>],  \* TALB
     [key |-> <<84, 66, 80, 77>>, value |-> <<"TextEncoding", "StringList">>],  \* TBPM
     [key |-> <<84, 67, 79, 77>>, value |-> <<"TextEncoding", "StringList">>],  \* TCOM
     [key |-> <<84, 67, 79, 78>>, value |-> <<"TextEncoding", "StringList">>],  \* TCON
     [key |-> <<84, 67, 79, 80>>, value |-> <<"TextEncoding", "StringList">>],  \* TCOP
     [key |-> <<84, 68, 65, 84>>, value |-> <<"TextEncoding", "StringList">>],  \* TDAT
     [key |-> <<84, 68, 76, 89>>, value |-> <<"TextEncoding", "StringList">>],  \* TDLY
     [key |-> <<84, 69, 78, 67>>, value |-> <<"TextEncoding", "StringList">>],  \* TENC
     [key |-> <<84, 69, 88, 84>>, value |-> <<"TextEncoding", "StringList">>],  \* TEXT
     [key |-> <<84, 70, 76, 84>>, value |-> <<"TextEncoding", "StringList">>],  \* TFLT
     [key |-> <<84, 73, 77, 69>>, value |-> <<"TextEncoding", "StringList">>],  \* TIME
     [key |-> <<84, 73, 84, 49>>, value |-> <<"TextEncoding", "StringList">>],  \* TIT1
     [key |-> <<84, 73, 84, 50>>, value |-> <<"TextEncoding", "StringList">>],  \* TIT2
     [key |-> <<84, 73, 84, 51>>, value |-> <<"TextEncoding", "StringList">>],  \* TIT3
     [key |-> <<84, 75, 69, 89>>, value |-> <<"TextEncoding", "StringList">>],  \* TKEY
     [key |-> <<84, 76, 65, 78>>, value |-> <<"TextEncoding", "StringList">>],  \* TLAN
     [key |-> <<84, 76, 69, 78>>, value |-> <<"TextEncoding", "StringList">>],  \* TLEN
     [key |-> <<84, 77, 69, 68>>, value |-> <<"TextEncoding", "StringList">>],  \* TMED
     [key |-> <<84, 79, 65, 76>>, value |-> <<"TextEncoding", "StringList">>],  \* TOAL
     [key |-> <<84, 79, 70, 78>>, value |-> <<"TextEncoding", "StringList">>],  \* TOFN
     [key |-> <<84, 79, 76, 89>>, value |-> <<"TextEncoding", "StringList">>],  \* TOLY
     [key |-> <<84, 79, 80, 69>>, value |-> <<"TextEncoding", "StringList">>],  \* TOPE
     [key |-> <<84, 79, 82, 89>>, value |-> <<"TextEncoding", "StringList">>],  \* TORY
     [key |-> <<84, 79, 87, 78>>, value |-> <<"TextEncoding", "StringList">>],  \* TOWN
     [key |-> <<84, 80, 69, 49>>, value |-> <<"TextEncoding", "StringList">>],  \* TPE1
     [key |-> <<84, 80, 69, 50>>, value |-> <<"TextEncoding", "StringList">>],  \* TPE2
     [key |-> <<84, 80, 69, 51>>, value |-> <<"TextEncoding", "StringList">>],  \* TPE3
     [key |-> <<84, 80, 69, 52>>, value |-> <<"TextEncoding", "StringList">>],  \* TPE4
     [key |-> <<84, 80, 79, 83>>, value |-> <<"TextEncoding", "StringList">>],  \* TPOS
     [key |-> <<84, 80, 85, 66>>, value |-> <<"TextEncoding", "StringList">>],  \* TPUB
     [key |-> <<84, 82, 67, 75>>, value |-> <<"TextEncoding", "StringList">>],  \* TRCK
     [key |-> <<84, 82, 68, 65>>, value |-> <<"TextEncoding", "StringList">>],  \* TRDA
     [key |-> <<84, 82, 83, 78>>, value |-> <<"TextEncoding", "StringList">>],  \* TRSN
     [key |-> <<84, 82, 83, 79>>, value |-> <<"TextEncoding", "StringList">>],  \* TRSO
     [key |-> <<84, 83, 73, 90>>, value |-> <<"TextEncoding", "StringList">>],  \* TSIZ
     [key |-> <<84, 83, 79, 50>>, value |-> <<"TextEncoding", "StringList">>],  \* TSO2
     [key |-> <<84, 83, 79, 67>>, value |-> <<"TextEncoding", "StringList">>],  \* TSOC
     [key |-> <<84, 83, 82, 67>>, value |-> <<"TextEncoding", "StringList">>],  \* TSRC
     [key |-> <<84, 83, 83, 69>>, value |-> <<"TextEncoding", "StringList">>],  \* TSSE
     [key |-> <<84, 89, 69, 82>>, value |-> <<"TextEncoding", "StringList">>],  \* TYER
     [key |-> <<84, 88, 88, 88>>, value |-> <<"TextEncoding", "String", "String">>],  \* TXXX
     [key |-> <<85, 70, 73, 68>>, value |-> <<"Latin1", "BinaryData">>],  \* UFID
     [key |-> <<85, 83, 69, 82>>, value |-> <<"TextEncoding", "Language", "String">>],  \* USER
     [key |-> <<85, 83, 76, 84>>, value |-> <<"TextEncoding", "Language", "String", "StringFull">>],  \* USLT
     [key |-> <<87, 67, 79, 77>>, value |-> <<"Latin1">>],  \* WCOM
     [key |-> <<87, 67, 79, 80>>, value |-> <<"Latin1">>],  \* WCOP
     [key |-> <<87, 79, 65, 70>>, value |-> <<"Latin1">>],  \* WOAF
     [key |-> <<87, 79, 65, 82>>, value |-> <<"Latin1">>],  \* WOAR
     [key |-> <<87, 79, 65, 83>>, value |-> <<"Latin1">>],  \* WOAS
     [key |-> <<87, 79, 82, 83>>, value |-> <<"Latin1">>],  \* WORS
     [key |-> <<87, 80, 65, 89>>, value |-> <<"Latin1">>],  \* WPAY
     [key |-> <<87, 80, 85, 66>>, value |-> <<"Latin1">>],  \* WPUB
     [key |-> <<87, 88, 88, 88>>, value |-> <<"TextEncoding", "String", "Latin1">>],  \* WXXX
     [key |-> <<90, 79, 66, 83>>, value |-> <<"BinaryData">>]}  \* ZOBS

ID_2_TO_3 ==
    {[key |-> <<66, 85, 70>>, value |-> <<82, 66, 85, 70>>],  \* BUF => RBUF
     [key |-> <<67, 78, 84>>, value |-> <<80, 67, 78, 84>>],  \* CNT => PCNT
     [key |-> <<67, 79, 77>>, value |-> <<67, 79, 77, 77>>],  \* COM => COMM
     [key |-> <<67, 82, 65>>, value |-> <<65, 69, 78, 67>>],  \* CRA => AENC
     [key |-> <<69, 84, 67>>, value |-> <<69, 84, 67, 79>>],  \* ETC => ETCO
     [key |-> <<71, 69, 79>>, value |-> <<71, 69, 79, 66>>],  \* GEO => GEOB
     [key |-> <<73, 80, 76>>, value |-> <<73, 80, 76, 83>>],  \* IPL => IPLS
     [key |-> <<76, 78, 75>>, value |-> <<76, 73, 78, 75>>],  \* LNK => LINK
     [key |-> <<77, 67, 73>>, value |-> <<77, 67, 68, 73>>],  \* MCI => MCDI
     [key |-> <<77, 76, 76>>, value |-> <<77, 76, 76, 84>>],  \* MLL => MLLT
     [key |-> <<80, 73, 67>>, value |-> <<65, 80, 73, 67>>],  \* PIC => APIC
     [key |-> <<80, 79, 80>>, value |-> <<80, 79, 80, 77>>],  \* POP => POPM
     [key |-> <<82, 69, 86>>, value |-> <<82, 86, 82, 66>>],  \* REV => RVRB
     [key |-> <<83, 76, 84>>, value |-> <<83, 89, 76, 84>>],  \* SLT => SYLT
     [key |-> <<83, 84, 67>>, value |-> <<83, 89, 84, 67>>],  \* STC => SYTC
     [key |-> <<84, 65, 76>>, value |-> <<84, 65, 76, 66>>],  \* TAL => TALB
     [key |-> <<84, 66, 80>>, value |-> <<84, 66, 80, 77>>],  \* TBP => TBPM
     [key |-> <<84, 67, 77>>, value |-> <<84, 67, 79, 77>>],  \* TCM => TCOM
     [key |-> <<84, 67, 79>>, value |-> <<84, 67, 79, 78>>],  \* TCO => TCON
     [key |-> <<84, 67, 82>>, value |-> <<84, 67, 79, 80>>],  \* TCR => TCOP
     [key |-> <<84, 68, 89>>, value |-> <<84, 68, 76, 89>>],  \* TDY => TDLY
     [key |-> <<84, 69, 78>>, value |-> <<84, 69, 78, 67>>],  \* TEN => TENC
     [key |-> <<84, 70, 84>>, value |-> <<84, 70, 76, 84>>],  \* TFT => TFLT
     [key |-> <<84, 75, 69>>, value |-> <<84, 75, 69, 89>>],  \* TKE => TKEY
     [key |-> <<84, 76, 65>>, value |-> <<84, 76, 65, 78>>],  \* TLA => TLAN
     [key |-> <<84, 76, 69>>, value |-> <<84, 76, 69, 78>>],  \* TLE => TLEN
     [key |-> <<84, 77, 84>>, value |-> <<84, 77, 69, 68>>],  \* TMT => TMED
     [key |-> <<84, 79, 65>>, value |-> <<84, 79, 80, 69>>],  \* TOA => TOPE
     [key |-> <<84, 79, 70>>, value |-> <<84, 79, 70, 78>>],  \* TOF => TOFN
     [key |-> <<84, 79, 76>>, value |-> <<84, 79, 76, 89>>],  \* TOL => TOLY
     [key |-> <<84, 79, 84>>, value |-> <<84, 79, 65, 76>>],  \* TOT => TOAL
     [key |-> <<84, 80, 49>>, value |-> <<84, 80, 69, 49>>],  \* TP1 => TPE1
     [key |-> <<84, 80, 50>>, value |-> <<84, 80, 69, 50>>],  \* TP2 => TPE2
     [key |-> <<84, 80, 51>>, value |-> <<84, 80, 69, 51>>],  \* TP3 => TPE3
     [key |-> <<84, 80, 52>>, value |-> <<84, 80, 69, 52>>],  \* TP4 => TPE4
     [key |-> <<84, 80, 65>>, value |-> <<84, 80, 79, 83>>],  \* TPA => TPOS
     [key |-> <<84, 80, 66>>, value |-> <<84, 80, 85, 66>>],  \* TPB => TPUB
     [key |-> <<84, 82, 67>>, value |-> <<84, 83, 82, 67>>],  \* TRC => TSRC
     [key |-> <<84, 82, 75>>, value |-> <<84, 82, 67, 75>>],  \* TRK => TRCK
     [key |-> <<84, 83, 83>>, value |-> <<84, 83, 83, 69>>],  \* TSS => TSSE
     [key |-> <<84, 84, 49>>, value |-> <<84, 73, 84, 49>>],  \* TT1 => TIT1
     [key |-> <<84, 84, 50>>, value |-> <<84, 73, 84, 50>>],  \* TT2 => TIT2
     [key |-> <<84, 84, 51>>, value |-> <<84, 73, 84, 51>>],  \* TT3 => TIT3
     [key |-> <<84, 88, 84>>, value |-> <<84, 69, 88, 84>>],  \* TXT => TEXT
     [key |-> <<84, 88, 88>>, value |-> <<84, 88, 88, 88>>],  \* TXX => TXXX
     [key |-> <<84, 89, 69>>, value |-> <<84, 89, 69, 82>>],  \* TYE => TYER
     [key |-> <<85, 70, 73>>, value |-> <<85, 70, 73, 68>>],  \* UFI => UFID
     [key |-> <<85, 76, 84>>, value |-> <<85, 83, 76, 84>>],  \* ULT => USLT
     [key |-> <<87, 65, 70>>, value |-> <<87, 79, 65, 70>>],  \* WAF => WOAF
     [key |-> <<87, 65, 82>>, value |-> <<87, 79, 65, 82>>],  \* WAR => WOAR
     [key |-> <<87, 65, 83>>, value |-> <<87, 79, 65, 83>>],  \* WAS => WOAS
     [key |-> <<87, 67, 77>>, value |-> <<87, 67, 79, 77>>],  \* WCM => WCOM
     [key |-> <<87, 67, 80>>, value |-> <<87, 67, 79, 80>>],  \* WCP => WCOP
     [key |-> <<87, 80, 66>>, value |-> <<87, 80, 85, 66>>],  \* WPB => WPUB
     [key |-> <<87, 88, 88>>, value |-> <<87, 88, 88, 88>>]}  \* WXX => WXXX

ID_3_TO_2 ==
    {[key |-> <<82, 66, 85, 70>>, value |-> <<66, 85, 70>>],  \* RBUF => BUF
     [key |-> <<80, 67, 78, 84>>, value |-> <<67, 78, 84>>],  \* PCNT => CNT
     [key |-> <<67, 79, 77, 77>>, value |-> <<67, 79, 77>>],  \* COMM => COM
     [key |-> <<65, 69, 78, 67>>, value |-> <<67, 82, 65>>],  \* AENC => CRA
     [key |-> <<69, 84, 67, 79>>, value |-> <<69, 84, 67>>],  \* ETCO => ETC
     [key |-> <<71, 69, 79, 66>>, value |-> <<71, 69, 79>>],  \* GEOB => GEO
     [key |-> <<73, 80, 76, 83>>, value |-> <<73, 80, 76>>],  \* IPLS => IPL
     [key |-> <<76, 73, 78, 75>>, value |-> <<76, 78, 75>>],  \* LINK => LNK
     [key |-> <<77, 67, 68, 73>>, value |-> <<77, 67, 73>>],  \* MCDI => MCI
     [key |-> <<77, 76, 76, 84>>, value |-> <<77, 76, 76>>],  \* MLLT => MLL
     [key |-> <<65, 80, 73, 67>>, value |-> <<80, 73, 67>>],  \* APIC => PIC
     [key |-> <<80, 79, 80, 77>>, value |-> <<80, 79, 80>>],  \* POPM => POP
     [key |-> <<82, 86, 82, 66>>, value |-> <<82, 69, 86>>],  \* RVRB => REV
     [key |-> <<83, 89, 76, 84>>, value |-> <<83, 76, 84>>],  \* SYLT => SLT
     [key |-> <<83, 89, 84, 67>>, value |-> <<83, 84, 67>>],  \* SYTC => STC
     [key |-> <<84, 65, 76, 66>>, value |-> <<84, 65, 76>>],  \* TALB => TAL
     [key |-> <<84, 66, 80, 77>>, value |-> <<84, 66, 80>>],  \* TBPM => TBP
     [key |-> <<84, 67, 79, 77>>, value |-> <<84, 67, 77>>],  \* TCOM => TCM
     [key |-> <<84, 67, 79, 78>>, value |-> <<84, 67, 79>>],  \* TCON => TCO
     [key |-> <<84, 67, 79, 80>>, value |-> <<84, 67, 82>>],  \* TCOP => TCR
     [key |-> <<84, 68, 76, 89>>, value |-> <<84, 68, 89>>],  \* TDLY => TDY
     [key |-> <<84, 69, 78, 67>>, value |-> <<84, 69, 78>>],  \* TENC => TEN
     [key |-> <<84, 70, 76, 84>>, value |-> <<84, 70, 84>>],  \* TFLT => TFT
     [key |-> <<84, 75, 69, 89>>, value |-> <<84, 75, 69>>],  \* TKEY => TKE
     [key |-> <<84, 76, 65, 78>>, value |-> <<84, 76, 65>>],  \* TLAN => TLA
     [key |-> <<84, 76, 69, 78>>, value |-> <<84, 76, 69>>],  \* TLEN => TLE
     [key |-> <<84, 77, 69, 68>>, value |-> <<84, 77, 84>>],  \* TMED => TMT
     [key |-> <<84, 79, 80, 69>>, value |-> <<84, 79, 65>>],  \* TOPE => TOA
     [key |-> <<84, 79, 70, 78>>, value |-> <<84, 79, 70>>],  \* TOFN => TOF
     [key |-> <<84, 79, 76, 89>>, value |-> <<84, 79, 76>>],  \* TOLY => TOL
     [key |-> <<84, 79, 65, 76>>, value |-> <<84, 79, 84>>],  \* TOAL => TOT
     [key |-> <<84, 80, 69, 49>>, value |-> <<84, 80, 49>>],  \* TPE1 => TP1
     [key |-> <<84, 80, 69, 50>>, value |-> <<84, 80, 50>>],  \* TPE2 => TP2
     [key |-> <<84, 80, 69, 51>>, value |-> <<84, 80, 51>>],  \* TPE3 => TP3
     [key |-> <<84, 80, 69, 52>>, value |-> <<84, 80, 52>>],  \* TPE4 => TP4
     [key |-> <<84, 80, 79, 83>>, value |-> <<84, 80, 65>>],  \* TPOS => TPA
     [key |-> <<84, 80, 85, 66>>, value |-> <<84, 80, 66>>],  \* TPUB => TPB
     [key |-> <<84, 83, 82, 67>>, value |-> <<84, 82, 67>>],  \* TSRC => TRC
     [key |-> <<84, 82, 67, 75>>, value |-> <<84, 82, 75>>],  \* TRCK => TRK
     [key |-> <<84, 83, 83, 69>>, value |-> <<84, 83, 83>>],  \* TSSE => TSS
     [key |-> <<84, 73, 84, 49>>, value |-> <<84, 84, 49>>],  \* TIT1 => TT1
     [key |-> <<84, 73, 84, 50>>, value |-> <<84, 84, 50>>],  \* TIT2 => TT2
     [key |-> <<84, 73, 84, 51>>, value |-> <<84, 84, 51>>],  \* TIT3 => TT3
     [key |-> <<84, 69, 88, 84>>, value |-> <<84, 88, 84>>],  \* TEXT => TXT
     [key |-> <<84, 88, 88, 88>>, value |-> <<84, 88, 88>>],  \* TXXX => TXX
     [key |-> <<84, 89, 69, 82>>, value |-> <<84, 89, 69>>],  \* TYER => TYE
     [key |-> <<85, 70, 73, 68>>, value |-> <<85, 70, 73>>],  \* UFID => UFI
     [key |-> <<85, 83, 76, 84>>, value |-> <<85, 76, 84>>],  \* USLT => ULT
     [key |-> <<87, 79, 65, 70>>, value |-> <<87, 65, 70>>],  \* WOAF => WAF
     [key |-> <<87, 79, 65, 82>>, value |-> <<87, 65, 82>>],  \* WOAR => WAR
     [key |-> <<87, 79, 65, 83>>, value |-> <<87, 65, 83>>],  \* WOAS => WAS
     [key |-> <<87, 67, 79, 77>>, value |-> <<87, 67, 77>>],  \* WCOM => WCM
     [key |-> <<87, 67, 79, 80>>, value |-> <<87, 67, 80>>],  \* WCOP => WCP
     [key |-> <<87, 80, 85, 66>>, value |-> <<87, 80, 66>>],  \* WPUB => WPB
     [key |-> <<87, 88, 88, 88>>, value |-> <<87, 88, 88>>]}  \* WXXX => WXX

\* phf::Map::get; "none" is Option::None
phf_get(map, key) ==
    IF \E e \in map : e.key = key
    THEN Some((CHOOSE e \in map : e.key = key).value)
    ELSE NoneOpt

\* enum Id { V2([u8; 3]), V3([u8; 4]), V4([u8; 4]) }
IdOf(v, name) == [v |-> v, name |-> name]

get_frame_info(id) ==
    CASE id.v = "V2" -> phf_get(FRAME_INFO_V2, id.name)
      [] id.v = "V3" -> IF phf_get(FRAME_INFO_V34, id.name).some
                        THEN phf_get(FRAME_INFO_V34, id.name)
                        ELSE phf_get(FRAME_INFO_V3, id.name)
      [] id.v = "V4" -> IF phf_get(FRAME_INFO_V34, id.name).some
                        THEN phf_get(FRAME_INFO_V34, id.name)
                        ELSE phf_get(FRAME_INFO_V4, id.name)

frame_format(id) ==
    IF get_frame_info(id).some
    THEN get_frame_info(id)
    ELSE CASE id.name[1] = 84 -> Some(<<"TextEncoding", "StringList">>)
           [] id.name[1] = 87 -> Some(<<"Latin1">>)
           [] OTHER -> NoneOpt

convert_id_2_to_3(name) == phf_get(ID_2_TO_3, name)

\* a lookup that finds the ID in the table and answers with the ID itself
convert_id_3_to_2_unrenamed(name) ==
    IF phf_get(ID_3_TO_2, name).some THEN Some(name) ELSE NoneOpt

convert_id_3_to_2(name) == phf_get(ID_3_TO_2, name)

-----------------------------------------------------------------------------
(* id3v2/frame/mod.rs: frame identifiers and frames.  An Id is the version *)
(* of its variant and its name; a Field is its kind and its value.  A      *)
(* frame held by the tag machine also carries a ghost uid, which no        *)
(* operation reads.                                                        *)

Id_version(id) == id.v

Id_name(id) == id.name

\* "TXX" and "TXXX"
is_text(id) ==
    /\ Id_name(id)[1] = 84
    /\ Id_name(id) # <<84, 88, 88>>
    /\ Id_name(id) # <<84, 88, 88, 88>>

\* FrameFlags::new()
FrameFlags_new ==
    [tag_alter_preservation |-> FALSE, file_alter_preservation |-> FALSE,
     read_only |-> FALSE, grouping_identity |-> FALSE, compression |-> FALSE,
     encryption |-> FALSE, unsynchronization |-> FALSE,
     data_length_indicator |-> FALSE]

Fld(kind, val) == [kind |-> kind, val |-> val]

Frame_new(id) ==
    [id |-> id, flags |-> FrameFlags_new, fields |-> <<>>, group_symbol |-> 0,
     encryption_method |-> 0, uid |-> 0]

Frame_version(frame) == Id_version(frame.id)

\* the Option<Frame> returned, or the panic of encode_string
new_text_frame(id, s, encoding) ==
    IF ~is_text(id) \/ ~encoding_compatible(Id_version(id), encoding)
    THEN [kind |-> "None"]
    ELSE LET encoded == encode_string(s, encoding)
         IN  IF encoded.panic THEN [kind |-> "Panic"]
             ELSE [kind |-> "Some",
                   frame |-> [Frame_new(id) EXCEPT
                                !.fields = <<Fld("TextEncoding", encoding),
                                             Fld("String", encoded.bytes)>>]]

\* Option<Encoding>, "none" for None
Frame_encoding(frame) ==
    IF Len(frame.fields) >= 1 /\ frame.fields[1].kind = "TextEncoding"
    THEN frame.fields[1].val
    ELSE "none"

\* the frame after the call and the bool returned; the strings are not transcoded
set_encoding(frame, encoding) ==
    IF ~encoding_compatible(Frame_version(frame), encoding)
    THEN [frame |-> frame, ret |-> FALSE]
    ELSE IF Len(frame.fields) >= 1 /\ frame.fields[1].kind = "TextEncoding"
         THEN [frame |-> [frame EXCEPT !.fields[1].val = encoding], ret |-> TRUE]
         ELSE [frame |-> frame, ret |-> FALSE]

set_compression(frame, compression) ==
    LET f1 == [frame EXCEPT !.flags.compression = compression]
    IN  IF compression /\ VersionNum(Frame_version(frame)) >= 4
        THEN [f1 EXCEPT !.flags.data_length_indicator = TRUE]
        ELSE f1

\* the second match of Frame::convert_version, on the frame with its new id
ConvertEncoding(frame, to) ==
    IF Frame_version(frame) = "V4" /\ to \in {"V3", "V2"}
       /\ Frame_encoding(frame) \in {"UTF16BE", "UTF8"}
    THEN set_encoding(frame, "UTF16").frame
    ELSE frame

\* a conversion that keeps only the frames already of the target version, the
\* variant C9 is tested against
Frame_convert_version_dropping(frame, to) ==
    [frame |-> frame, ret |-> (Id_version(frame.id) = to)]

\* Frame::convert_version: the frame after the call and the bool returned
Frame_convert_version(frame, to) ==
    LET from == frame.id
    IN  IF Id_version(from) = to THEN [frame |-> frame, ret |-> TRUE]
        ELSE IF {Id_version(from), to} = {"V3", "V4"} THEN [frame |-> frame, ret |-> TRUE]
        ELSE IF to = "V2"
             THEN LET new_id == convert_id_3_to_2(Id_name(from))
                  IN  IF ~new_id.some THEN [frame |-> frame, ret |-> FALSE]
                      ELSE [frame |-> ConvertEncoding(
                                          [frame EXCEPT !.id = IdOf("V2", new_id.value)], to),
                            ret |-> TRUE]
             ELSE LET new_id == convert_id_2_to_3(Id_name(from))
                  IN  IF ~new_id.some THEN [frame |-> frame, ret |-> FALSE]
                      ELSE LET f1 == [frame EXCEPT !.id = IdOf(to, new_id.value)]
                               f2 == IF to = "V4" /\ f1.flags.compression
                                     THEN [f1 EXCEPT !.flags.data_length_indicator = TRUE]
                                     ELSE f1
                           IN  [frame |-> ConvertEncoding(f2, to), ret |-> TRUE]

-----------------------------------------------------------------------------
(* id3v2/frame/field.rs, parsers.rs: the field codec.  A reader over a     *)
(* byte slice is the bytes not yet read.  The value of an Int8 ... Int32   *)
(* field is the sequence of its bytes, the value of an Int32Plus field is  *)
(* BigNum.data.  A result is ok, err (an Err value) or panic; a parse that *)
(* never returns is hang.                                                  *)

\* BigNum::drop_leading_zeros: zero bytes are popped off the end
RECURSIVE drop_leading_zeros(_)
drop_leading_zeros(data) ==
    IF data = <<>> THEN <<>>
    ELSE IF data[Len(data)] = 0 THEN drop_leading_zeros(SubSeq(data, 1, Len(data) - 1))
    ELSE data

BigNum_new(data) == drop_leading_zeros(data)

\* Field::serialize; encoding is an Option<Encoding> ("none" for None)
serialize(field, encoding, is_last) ==
    CASE field.kind = "TextEncoding" ->
           [panic |-> FALSE, bytes |-> <<EncodingByte(field.val)>>]
      [] field.kind \in {"Latin1", "Latin1Full"} ->
           [panic |-> FALSE,
            bytes |-> field.val \o (IF ~is_last THEN delim("Latin1") ELSE <<>>)]
      [] field.kind \in {"Latin1List", "StringList"} ->
           IF field.val = <<>> THEN [panic |-> TRUE, bytes |-> <<>>]
           ELSE [panic |-> FALSE, bytes |-> field.val[1]]
      [] field.kind \in {"String", "StringFull"} ->
           IF is_last THEN [panic |-> FALSE, bytes |-> field.val]
           ELSE IF encoding = "none" THEN [panic |-> TRUE, bytes |-> <<>>]
           ELSE [panic |-> FALSE, bytes |-> field.val \o delim(encoding)]
      [] OTHER -> [panic |-> FALSE, bytes |-> field.val]

\* the loop of Field::read_until_delim from the top of one pass; dlen, the delim_len, is
\* 0 for None.  At the end of the input with fewer than max_len bytes read and
\* no delimiter seen, no pass changes anything and the loop never ends.
RECURSIVE read_until_delim_loop(_, _, _, _)
read_until_delim_loop(buf, rest, dlen, max_len) ==
    LET unit_len == IF dlen = 0 THEN 1 ELSE dlen
        unit == Take(rest, unit_len)
        consecutive == Cardinality({i \in 1..Len(unit) : unit[i] = 0})
        buf1 == buf \o unit
        rest1 == Drop(rest, unit_len)
    IN  IF dlen # 0 /\ consecutive = dlen
        THEN [hang |-> FALSE, buf |-> SubSeq(buf1, 1, Len(buf1) - dlen),
              saw_delim |-> TRUE, rest |-> rest1]
        ELSE IF Len(buf1) >= max_len
        THEN [hang |-> FALSE, buf |-> buf1, saw_delim |-> FALSE, rest |-> rest1]
        ELSE IF unit = <<>>
        THEN [hang |-> TRUE, buf |-> buf1, saw_delim |-> FALSE, rest |-> rest1]
        ELSE read_until_delim_loop(buf1, rest1, dlen, max_len)

read_until_delim(reader, dlen, max_len) ==
    read_until_delim_loop(<<>>, reader, dlen, max_len)

\* the table len_min of Field::parse
len_min(ftype) ==
    CASE ftype = "TextEncoding" -> 1
      [] ftype \in {"Language", "FrameIdV2", "Int24"} -> 3
      [] ftype \in {"FrameIdV34", "Int32"} -> 4
      [] ftype = "Int8" -> 1
      [] ftype = "Int16" -> 2
      [] OTHER -> 0

FieldResult(kind, field, rest) == [kind |-> kind, field |-> field, rest |-> rest]

\* Field::parse without the check for the delimiter of a field that is not last
Field_parse_undelimited(reader, ftype, encoding, len, is_last) ==
    IF ftype \in {"String", "StringFull"} /\ encoding = "none"
    THEN FieldResult("panic", None, reader)
    ELSE
    LET delim_len_ == CASE ftype \in {"Latin1", "Latin1Full"} -> 1
                        [] ftype \in {"String", "StringFull"} -> delim_len(encoding)
                        [] OTHER -> 0
    IN  IF len_min(ftype) > 0
        THEN \* read_at_least!: an error when the reader holds fewer bytes
             IF Len(reader) < len_min(ftype)
             THEN FieldResult("err", None, <<>>)
             ELSE LET buf == Take(reader, len_min(ftype))
                      rest == Drop(reader, len_min(ftype))
                  IN  IF ftype = "TextEncoding"
                      THEN IF from_u8(buf[1]) = "none"
                           THEN FieldResult("err", None, rest)
                           ELSE FieldResult("ok", Fld(ftype, from_u8(buf[1])), rest)
                      ELSE FieldResult("ok", Fld(ftype, buf), rest)
        ELSE LET r == read_until_delim(reader, delim_len_, len)
             IN  IF r.hang THEN FieldResult("hang", None, r.rest)
                 ELSE CASE ftype \in {"Latin1List", "StringList"} ->
                             FieldResult("ok", Fld(ftype, <<r.buf>>), r.rest)
                        [] ftype = "Int32Plus" ->
                             FieldResult("ok", Fld(ftype, BigNum_new(r.buf)), r.rest)
                        [] OTHER -> FieldResult("ok", Fld(ftype, r.buf), r.rest)

\* Field::parse on the reader; the field parsed and the reader after it
Field_parse(reader, ftype, encoding, len, is_last) ==
    IF ftype \in {"String", "StringFull"} /\ encoding = "none"
    THEN FieldResult("panic", None, reader)
    ELSE
    LET delim_len_ == CASE ftype \in {"Latin1", "Latin1Full"} -> 1
                        [] ftype \in {"String", "StringFull"} -> delim_len(encoding)
                        [] OTHER -> 0
    IN  IF len_min(ftype) > 0
        THEN \* read_at_least!: an error when the reader holds fewer bytes
             IF Len(reader) < len_min(ftype)
             THEN FieldResult("err", None, <<>>)
             ELSE LET buf == Take(reader, len_min(ftype))
                      rest == Drop(reader, len_min(ftype))
                  IN  IF ftype = "TextEncoding"
                      THEN IF from_u8(buf[1]) = "none"
                           THEN FieldResult("err", None, rest)
                           ELSE FieldResult("ok", Fld(ftype, from_u8(buf[1])), rest)
                      ELSE FieldResult("ok", Fld(ftype, buf), rest)
        ELSE LET r == read_until_delim(reader, delim_len_, len)
             IN  IF r.hang THEN FieldResult("hang", None, r.rest)
                 ELSE IF ~is_last /\ delim_len_ # 0 /\ ~r.saw_delim
                 THEN FieldResult("err", None, r.rest)
                 ELSE CASE ftype \in {"Latin1List", "StringList"} ->
                             FieldResult("ok", Fld(ftype, <<r.buf>>), r.rest)
                        [] ftype = "Int32Plus" ->
                             FieldResult("ok", Fld(ftype, BigNum_new(r.buf)), r.rest)
                        [] OTHER -> FieldResult("ok", Fld(ftype, r.buf), r.rest)

\* parsers::encode: the fields are serialized in turn
RECURSIVE encode_from(_, _, _)
encode_from(fields, encoding, i) ==
    IF i > Len(fields) THEN [panic |-> FALSE, bytes |-> <<>>]
    ELSE LET one == serialize(fields[i], encoding, i = Len(fields))
             more == encode_from(fields, encoding, i + 1)
         IN  IF one.panic \/ more.panic THEN [panic |-> TRUE, bytes |-> <<>>]
             ELSE [panic |-> FALSE, bytes |-> one.bytes \o more.bytes]

encode(fields, encoding) == encode_from(fields, encoding, 1)

\* the loop of parsers::decode over the field types from the i-th on
RECURSIVE decode_from(_, _, _, _)
decode_from(field_types, data, encoding, i) ==
    IF i > Len(field_types) THEN [kind |-> "ok", fields |-> <<>>]
    ELSE LET r == Field_parse(data, field_types[i], encoding, Len(data),
                              i = Len(field_types))
         IN  IF r.kind # "ok" THEN [kind |-> r.kind, fields |-> <<>>]
             ELSE LET enc1 == IF encoding = "none" /\ r.field.kind = "TextEncoding"
                              THEN r.field.val ELSE encoding
                      more == decode_from(field_types, r.rest, enc1, i + 1)
                  IN  IF more.kind # "ok" THEN more
                      ELSE [kind |-> "ok", fields |-> <<r.field>> \o more.fields]

\* parsers::decode: the fields of the frame it returns
decode_as(format, data) ==
    IF ~format.some THEN [kind |-> "err", fields |-> <<>>]
    ELSE decode_from(format.value, data, "none", 1)

decode(id, data) == decode_as(frame_format(id), data)

-----------------------------------------------------------------------------
(* id3v2/frame/stream: the frame codec of each version.                    *)

\* io::Read::read on a slice into a buffer of n zero bytes: a short read
\* leaves the rest of the buffer zero and is no error
ReadShort(reader, n) ==
    [bytes |-> Take(reader, n) \o [i \in 1..(n - Min(n, Len(reader))) |-> 0],
     rest |-> Drop(reader, n)]

\* read_all!, read_u8!, read_be_u32! and byteorder's read_u8 / read_u16 /
\* read_u32: n bytes, or an error when the reader holds fewer
ReadExact(reader, n) ==
    IF Len(reader) < n THEN [ok |-> FALSE, bytes |-> <<>>, rest |-> <<>>]
    ELSE [ok |-> TRUE, bytes |-> Take(reader, n), rest |-> Drop(reader, n)]

\* zlib, abstracted: a stream is the marker byte 0x78 and the data stored;
\* every other byte string is no zlib stream
ZlibEncoder(data) == <<120>> \o data

inflate_bytes_zlib(data) ==
    IF data # <<>> /\ data[1] = 120 THEN Some(Tail(data)) ELSE NoneOpt

Flag(b, value) == IF b THEN value ELSE 0

HasBit(byte, value) == (byte \div value) % 2 = 1

\* FrameFlags::to_bytes(version)
FrameFlags_to_bytes(flags, v) ==
    IF v = 3
    THEN <<Flag(flags.tag_alter_preservation, 128) + Flag(flags.file_alter_preservation, 64)
             + Flag(flags.read_only, 32),
           Flag(flags.compression, 128) + Flag(flags.encryption, 64)
             + Flag(flags.grouping_identity, 32)>>
    ELSE <<Flag(flags.tag_alter_preservation, 64) + Flag(flags.file_alter_preservation, 32)
             + Flag(flags.read_only, 16),
           Flag(flags.grouping_identity, 64) + Flag(flags.compression, 8)
             + Flag(flags.encryption, 4) + Flag(flags.unsynchronization, 2)
             + Flag(flags.data_length_indicator, 1)>>

\* Frame::fields_to_bytes; the encoding of the request is that of the frame
fields_to_bytes(frame) == encode(frame.fields, Frame_encoding(frame))

\* Frame::parse_fields: unwrap() panics on data that is no zlib stream
parse_fields(frame, data) ==
    IF frame.flags.compression /\ ~inflate_bytes_zlib(data).some
    THEN [kind |-> "panic", fields |-> <<>>]
    ELSE decode(frame.id, IF frame.flags.compression
                          THEN inflate_bytes_zlib(data).value ELSE data)

\* the result of reading a frame: padding, frame, err, panic or hang
ReadResult(kind, frame, bytes_read, rest) ==
    [kind |-> kind, frame |-> frame, bytes_read |-> bytes_read, rest |-> rest]

\* the end of each read, on the result parsed of Frame::parse_fields
ReadParsed(parsed, frame, bytes_read, rest) ==
    IF parsed.kind # "ok" THEN ReadResult(parsed.kind, None, 0, rest)
    ELSE ReadResult("frame", [frame EXCEPT !.fields = parsed.fields], bytes_read, rest)

\* the end of each read: the content is read in full and parsed
ReadContent(frame, reader, read_size, bytes_read) ==
    IF Len(reader) < read_size THEN ReadResult("err", None, 0, <<>>)
    ELSE ReadParsed(parse_fields(frame,
                                 IF frame.flags.unsynchronization
                                 THEN resynchronize(Take(reader, read_size))
                                 ELSE Take(reader, read_size)),
                    frame, bytes_read, Drop(reader, read_size))

\* FrameV2::read
FrameV2_read(reader) ==
    LET first == ReadShort(reader, 1)
        more == ReadShort(first.rest, 2)
        frame == Frame_new(IdOf("V2", first.bytes \o more.bytes))
        sizebytes == ReadExact(more.rest, 3)
        read_size == sizebytes.bytes[1] * Pow2(16) + sizebytes.bytes[2] * Pow2(8)
                     + sizebytes.bytes[3]
    IN  IF first.bytes[1] = 0 THEN ReadResult("padding", None, 0, first.rest)
        ELSE IF ~sizebytes.ok THEN ReadResult("err", None, 0, <<>>)
        ELSE ReadContent(frame, sizebytes.rest, read_size, 6 + read_size)

\* what is written, or the panic of the write, and the u32 returned
WriteResult(panic, bytes, size) == [panic |-> panic, bytes |-> bytes, size |-> size]

\* FrameV2::write
FrameV2_write(frame) ==
    LET content == fields_to_bytes(frame)
        content_size == Len(content.bytes)
    IN  IF content.panic \/ Id_version(frame.id) # "V2" THEN WriteResult(TRUE, <<>>, 0)
        ELSE WriteResult(FALSE,
                         Id_name(frame.id) \o Tail(u32_to_bytes(content_size))
                             \o content.bytes,
                         6 + content_size)

\* `read_size -= 4` on a u32 below 4: a panic in a build with overflow checks;
\* without them the size wraps to almost 2^32 and the content cannot be read
Underflow(checks) ==
    IF checks THEN ReadResult("panic", None, 0, <<>>) ELSE ReadResult("err", None, 0, <<>>)

\* FrameV3::read; Frame::read_from passes no unsynchronization argument
FrameV3_read(reader, checks) ==
    LET first == ReadShort(reader, 1)
        more == ReadShort(first.rest, 3)
        size == ReadExact(more.rest, 4)
        content_size == be_u32(size.bytes)
        fl == ReadExact(size.rest, 2)
        flags == [FrameFlags_new EXCEPT
                    !.tag_alter_preservation = HasBit(fl.bytes[1], 128),
                    !.file_alter_preservation = HasBit(fl.bytes[1], 64),
                    !.read_only = HasBit(fl.bytes[1], 32),
                    !.compression = HasBit(fl.bytes[2], 128),
                    !.encryption = HasBit(fl.bytes[2], 64),
                    !.grouping_identity = HasBit(fl.bytes[2], 32)]
        dsize == IF flags.compression THEN ReadExact(fl.rest, 4)
                 ELSE [ok |-> TRUE, bytes |-> <<>>, rest |-> fl.rest]
        read_size == IF flags.compression THEN content_size - 4 ELSE content_size
        method == IF flags.encryption THEN ReadExact(dsize.rest, 1)
                  ELSE [ok |-> TRUE, bytes |-> <<0>>, rest |-> dsize.rest]
        group == IF flags.grouping_identity THEN ReadExact(method.rest, 1)
                 ELSE [ok |-> TRUE, bytes |-> <<0>>, rest |-> method.rest]
        frame == [Frame_new(IdOf("V3", first.bytes \o more.bytes)) EXCEPT
                    !.flags = flags,
                    !.encryption_method = method.bytes[1],
                    !.group_symbol = group.bytes[1]]
    IN  IF first.bytes[1] = 0 THEN ReadResult("padding", None, 0, first.rest)
        ELSE IF ~size.ok \/ ~fl.ok \/ ~dsize.ok THEN ReadResult("err", None, 0, <<>>)
        ELSE IF read_size < 0 THEN Underflow(checks)
        ELSE IF ~method.ok \/ ~group.ok THEN ReadResult("err", None, 0, <<>>)
        ELSE ReadContent(frame, group.rest, read_size, 10 + content_size)

\* FrameV3::write, without the unsynchronization argument
FrameV3_write(frame) ==
    LET content == fields_to_bytes(frame)
        decompressed_size == Len(content.bytes)
        content_bytes == IF frame.flags.compression THEN ZlibEncoder(content.bytes)
                         ELSE content.bytes
        content_size == IF frame.flags.compression THEN Len(content_bytes) + 4
                        ELSE Len(content_bytes)
    IN  IF content.panic \/ Id_version(frame.id) # "V3" THEN WriteResult(TRUE, <<>>, 0)
        ELSE WriteResult(FALSE,
                         Id_name(frame.id) \o u32_to_bytes(content_size)
                             \o FrameFlags_to_bytes(frame.flags, 3)
                             \o (IF frame.flags.compression
                                 THEN u32_to_bytes(decompressed_size) ELSE <<>>)
                             \o content_bytes,
                         10 + content_size)

\* FrameV4::read
FrameV4_read(reader, checks) ==
    LET first == ReadShort(reader, 1)
        more == ReadShort(first.rest, 3)
        size == ReadExact(more.rest, 4)
        content_size == unsynchsafe(be_u32(size.bytes))
        fl == ReadExact(size.rest, 2)
        flags == [tag_alter_preservation |-> HasBit(fl.bytes[1], 64),
                  file_alter_preservation |-> HasBit(fl.bytes[1], 32),
                  read_only |-> HasBit(fl.bytes[1], 16),
                  grouping_identity |-> HasBit(fl.bytes[2], 64),
                  compression |-> HasBit(fl.bytes[2], 8),
                  encryption |-> HasBit(fl.bytes[2], 4),
                  unsynchronization |-> HasBit(fl.bytes[2], 2),
                  data_length_indicator |-> HasBit(fl.bytes[2], 1)]
        group == IF flags.grouping_identity THEN ReadExact(fl.rest, 1)
                 ELSE [ok |-> TRUE, bytes |-> <<0>>, rest |-> fl.rest]
        dsize == IF flags.data_length_indicator THEN ReadExact(group.rest, 4)
                 ELSE [ok |-> TRUE, bytes |-> <<>>, rest |-> group.rest]
        read_size == IF flags.data_length_indicator THEN content_size - 4
                     ELSE content_size
        frame == [Frame_new(IdOf("V4", first.bytes \o more.bytes)) EXCEPT
                    !.flags = flags, !.group_symbol = group.bytes[1]]
    IN  IF first.bytes[1] = 0 THEN ReadResult("padding", None, 0, first.rest)
        ELSE IF ~size.ok \/ ~fl.ok \/ ~group.ok THEN ReadResult("err", None, 0, <<>>)
        ELSE IF flags.compression /\ ~flags.data_length_indicator
        THEN ReadResult("err", None, 0, <<>>)
        ELSE IF flags.encryption THEN ReadResult("err", None, 0, <<>>)
        ELSE IF ~dsize.ok THEN ReadResult("err", None, 0, <<>>)
        ELSE IF read_size < 0 THEN Underflow(checks)
        ELSE ReadContent(frame, dsize.rest, read_size, 10 + content_size)

\* FrameV4::write, without the unsynchronization argument
FrameV4_write(frame) ==
    LET content == fields_to_bytes(frame)
        decompressed_size == Len(content.bytes)
        content_bytes == IF frame.flags.compression THEN ZlibEncoder(content.bytes)
                         ELSE content.bytes
        content_size == Len(content_bytes)
                        + (IF frame.flags.data_length_indicator THEN 4 ELSE 0)
    IN  IF content.panic \/ Id_version(frame.id) # "V4" THEN WriteResult(TRUE, <<>>, 0)
        ELSE WriteResult(FALSE,
                         Id_name(frame.id) \o u32_to_bytes(synchsafe(content_size))
                             \o FrameFlags_to_bytes(frame.flags, 4)
                             \o (IF frame.flags.data_length_indicator
                                 THEN u32_to_bytes(synchsafe(decompressed_size)) ELSE <<>>)
                             \o content_bytes,
                         10 + content_size)

\* Frame::read_from and Frame::write_to
Frame_read_from(reader, v, checks) ==
    CASE v = "V2" -> FrameV2_read(reader)
      [] v = "V3" -> FrameV3_read(reader, checks)
      [] v = "V4" -> FrameV4_read(reader, checks)

Frame_write_to(frame) ==
    CASE Frame_version(frame) = "V2" -> FrameV2_write(frame)
      [] Frame_version(frame) = "V3" -> FrameV3_write(frame)
      [] Frame_version(frame) = "V4" -> FrameV4_write(frame)

-----------------------------------------------------------------------------
(* id3v2/mod.rs: the tag and its mutators, on the pair of Tag.version and  *)
(* Tag.frames.                                                             *)

\* Vec::retain
retain(v, keep) ==
    LET kept(x) == keep[x]
    IN  SelectSeq(v, kept)

\* a push at the head of the vector, the variant C6 is tested against
push_front(v, x) == <<x>> \o v

\* Vec::push
push(v, x) == Append(v, x)

remove_frames_by_id(fs, id) ==
    retain(fs, [frame \in {fs[i] : i \in 1..Len(fs)} |-> frame.id # id])

\* Tag::convert_version: the version and the frames after the call
Tag_convert_version(ver, fs, to) ==
    IF ver = to THEN [version |-> ver, frames |-> fs]
    ELSE LET converted == [i \in 1..Len(fs) |-> Frame_convert_version(fs[i], to)]
             kept(i) == converted[i].ret
             RECURSIVE walk(_)
             walk(i) == IF i > Len(fs) THEN <<>>
                        ELSE (IF kept(i) THEN <<converted[i].frame>> ELSE <<>>)
                             \o walk(i + 1)
         IN  [version |-> to, frames |-> walk(1)]

\* Tag::add_frame: the frames after the call and the bool returned
add_frame(ver, fs, frame) ==
    IF Frame_version(frame) # ver
    THEN [frames |-> fs, ret |-> FALSE]
    ELSE [frames |-> push(fs, frame), ret |-> TRUE]

\* Tag::add_text_frame; uid is the ghost uid of the frame pushed
add_text_frame(fs, id, text, uid) ==
    LET made == new_text_frame(id, text, "UTF8")
    IN  IF made.kind = "None" THEN [frames |-> fs, ret |-> FALSE]
        ELSE [frames |-> push(remove_frames_by_id(fs, id), [made.frame EXCEPT !.uid = uid]),
              ret |-> TRUE]

\* Tag::add_text_frame_enc: the frames are removed before new_text_frame is
\* called, and expect() panics on None
add_text_frame_enc(fs, id, text, encoding, uid) ==
    LET removed == remove_frames_by_id(fs, id)
        made == new_text_frame(id, text, encoding)
    IN  IF made.kind # "Some"
        THEN [frames |-> removed, ret |-> "panic"]
        ELSE [frames |-> push(removed, [made.frame EXCEPT !.uid = uid]), ret |-> "unit"]

-----------------------------------------------------------------------------
(* id3v2/mod.rs: the accessors built on the frames, TXXX and TRCK.  A      *)
(* &str is the sequence of its code points.                                *)

\* id_func!(txxx_id, b"TXX", b"TXXX") and id_func!(track_id, b"TRK", b"TRCK")
txxx_id(v) ==
    IF v = "V2" THEN IdOf("V2", <<84, 88, 88>>) ELSE IdOf(v, <<84, 88, 88, 88>>)

track_id(v) ==
    IF v = "V2" THEN IdOf("V2", <<84, 82, 75>>) ELSE IdOf(v, <<84, 82, 67, 75>>)

\* the first frame with the ID
get_frame_by_id(fs, id) ==
    IF \E i \in 1..Len(fs) : fs[i].id = id
    THEN Some(fs[CHOOSE i \in 1..Len(fs) :
                    fs[i].id = id /\ \A j \in 1..(i - 1) : fs[j].id # id])
    ELSE NoneOpt

\* the slice pattern [Field::TextEncoding(_), Field::String(_)]
IsEncodedString(fields) ==
    /\ Len(fields) = 2
    /\ fields[1].kind = "TextEncoding"
    /\ fields[2].kind = "String"

text_frame_text(fs, id) ==
    LET found == get_frame_by_id(fs, id)
    IN  IF found.some /\ IsEncodedString(found.value.fields)
        THEN string_from_encoding(found.value.fields[1].val, found.value.fields[2].val)
        ELSE NoneOpt

\* text.splitn(2, '/').collect(), for a text with at most one '/'
splitn(text) ==
    IF \E i \in 1..Len(text) : text[i] = 47
    THEN LET at == CHOOSE i \in 1..Len(text) : text[i] = 47
         IN  <<SubSeq(text, 1, at - 1), SubSeq(text, at + 1, Len(text))>>
    ELSE <<text>>

\* str::parse::<u32>().ok(), for digits that stay below 2^31
RECURSIVE ValueOf(_, _)
ValueOf(text, acc) ==
    IF text = <<>> THEN acc ELSE ValueOf(Tail(text), acc * 10 + (Head(text) - 48))

parse(text) ==
    IF text # <<>> /\ \A i \in 1..Len(text) : text[i] \in 48..57
    THEN Some(ValueOf(text, 0))
    ELSE NoneOpt

\* Option<(u32, Option<u32>)>
track_pair(ver, fs) ==
    LET text == text_frame_text(fs, track_id(ver))
    IN  IF ~text.some THEN NoneOpt
        ELSE LET split == splitn(text.value)
             IN  IF Len(split) = 2 /\ ~parse(split[2]).some THEN NoneOpt
                 ELSE IF ~parse(split[1]).some THEN NoneOpt
                 ELSE Some([track |-> parse(split[1]).value,
                            total_tracks |-> IF Len(split) = 2 THEN parse(split[2])
                                             ELSE NoneOpt])

\* format!("{}", n)
RECURSIVE format(_)
format(n) == IF n < 10 THEN <<48 + n>> ELSE format(n \div 10) \o <<48 + (n % 10)>>

\* a setter that writes the track alone
set_track_enc_alone(ver, fs, track, encoding) ==
    add_text_frame_enc(fs, track_id(ver), format(track), encoding, 0)

\* Tag::set_track_enc: the frames after the call, or the panic
set_track_enc(ver, fs, track, encoding) ==
    LET pair == track_pair(ver, fs)
        text == IF pair.some /\ pair.value.total_tracks.some
                THEN format(track) \o <<47>> \o format(pair.value.total_tracks.value)
                ELSE format(track)
    IN  add_text_frame_enc(fs, track_id(ver), text, encoding, 0)

\* Tag::set_total_tracks_enc
set_total_tracks_enc(ver, fs, total_tracks, encoding) ==
    LET pair == track_pair(ver, fs)
        text == IF pair.some
                THEN format(pair.value.track) \o <<47>> \o format(total_tracks)
                ELSE <<49, 47>> \o format(total_tracks)
    IN  add_text_frame_enc(fs, track_id(ver), text, encoding, 0)

\* the slice pattern [Field::TextEncoding(_), Field::String(_), Field::String(_)]
IsKeyValue(fields) ==
    /\ Len(fields) = 3
    /\ fields[1].kind = "TextEncoding"
    /\ fields[2].kind = "String"
    /\ fields[3].kind = "String"

unwrap_or(opt, default) == IF opt.some THEN opt.value ELSE default

\* Tag::remove_txxx: key and val are Option<&str>
remove_txxx(ver, fs, key, val) ==
    retain(fs, [frame \in {fs[i] : i \in 1..Len(fs)} |->
                  ~(/\ frame.id = txxx_id(ver)
                    /\ IF IsKeyValue(frame.fields)
                       THEN /\ as_bytes(unwrap_or(key, <<>>)) = frame.fields[2].val
                            /\ as_bytes(unwrap_or(val, <<>>)) = frame.fields[3].val
                       ELSE TRUE)])

-----------------------------------------------------------------------------
(* The unsynchronization pipeline: a byte string is run through            *)
(* unsynchronized() and the result through deunsynchronized(), one call    *)
(* of next() per step, as collect() drives them (unsync.rs, test_inverse). *)

\* bytes that matter to the transforms: 0x00, 'A', 0xDF, 0xE0, 0xFF
UnsyncAlphabet == {0, 65, 223, 224, 255}

InitUnsync ==
    /\ pc = "unsync"
    /\ raw \in SeqsUpTo(UnsyncAlphabet, MaxLen)
    /\ ui = unsynchronized
    /\ unsynced = <<>>
    /\ di = deunsynchronized
    /\ resynced = <<>>
    /\ version = "V4" /\ frames = <<>> /\ nextUid = 1 /\ last = None /\ trail = <<>>
    /\ subject = None /\ stream = <<>> /\ outcome = None

UnsyncNext ==
    /\ pc = "unsync"
    /\ LET r == UnsyncIter_next(ui, raw)
       IN  /\ ui' = r.it
           /\ IF r.ret = NoByte
              THEN pc' = "deunsync" /\ unsynced' = unsynced
              ELSE pc' = pc /\ unsynced' = Append(unsynced, r.ret)
    /\ UNCHANGED <<raw, di, resynced>>
    /\ UNCHANGED tagVars /\ UNCHANGED codecVars

DeUnsyncNext ==
    /\ pc = "deunsync"
    /\ LET r == DeUnsyncIter_next(di, unsynced)
       IN  /\ di' = r.it
           /\ IF r.ret = NoByte
              THEN pc' = "resynced" /\ resynced' = resynced
              ELSE pc' = pc /\ resynced' = Append(resynced, r.ret)
    /\ UNCHANGED <<raw, ui, unsynced>>
    /\ UNCHANGED tagVars /\ UNCHANGED codecVars

NextUnsync == UnsyncNext \/ DeUnsyncNext

SpecUnsync == InitUnsync /\ [][NextUnsync]_vars

\* C2: for every byte string B, deunsynchronized() applied to the output of
\* unsynchronized() on B yields exactly B (same length, bytes and order).
C2_UnsyncThenDeunsyncIsIdentity == pc = "resynced" => resynced = raw

\* the bytes with a zero after each 0xFF that is the last byte or is followed
\* by 0x00 or by a byte in 0xE0..0xFF
RECURSIVE Stuffed(_, _)
Stuffed(bytes, i) ==
    IF i > Len(bytes) THEN <<>>
    ELSE LET follows == i < Len(bytes)
                        /\ (bytes[i + 1] = 0 \/ bytes[i + 1] >= 224)
         IN  <<bytes[i]>>
             \o (IF bytes[i] = 255 /\ (i = Len(bytes) \/ follows) THEN <<0>> ELSE <<>>)
             \o Stuffed(bytes, i + 1)

\* C27: the output of unsynchronized() on a byte string B holds no 0xFF
\* followed at once by a byte in 0xE0..0xFF and does not end with 0xFF; it is
\* B with one 0x00 inserted after each 0xFF that B follows with 0x00 or
\* 0xE0..0xFF and after a final 0xFF, and nothing else changed.
C27_UnsyncOutputHasNoSyncPattern ==
    pc \in {"deunsync", "resynced"} =>
        /\ \A i \in 1..(Len(unsynced) - 1) :
              unsynced[i] = 255 => unsynced[i + 1] < 224
        /\ unsynced # <<>> => unsynced[Len(unsynced)] # 255
        /\ unsynced = Stuffed(raw, 1)

C27_Witness ==
    /\ pc = "deunsync"
    /\ raw = <<255, 224, 0, 255>>
    /\ unsynced = <<255, 0, 224, 0, 255, 0>>

-----------------------------------------------------------------------------
(* The pure functions of util.rs and the rename tables of frameinfo.rs,    *)
(* applied to inputs drawn by the initial state: a number below 2^28, a    *)
(* string with an encoding, or an ID3v2.2 frame ID.                        *)

\* the values of one 7-bit group of a number
Groups == {0, 1, 64, 127}

\* numbers below 2^28, built from four 7-bit groups, and the number of
\* test_synchsafe
Numbers ==
    {a + b * Pow2(7) + c * Pow2(14) + d * Pow2(21) : a, b, c, d \in Groups}
        \cup {176994}

\* the longest string drawn
MaxText == 2

\* code points: NUL, 'a', U+00E9 and U+015B
CodePoints == {0, 97, 233, 347}

Strings == SeqsUpTo(CodePoints, MaxText)

\* the ID3v2.2 IDs of the catalog and of the rename table, and one of neither
V2Names ==
    {e.key : e \in FRAME_INFO_V2} \cup {e.key : e \in ID_2_TO_3} \cup {<<88, 90, 90>>}

InitUtil ==
    /\ \/ pc = "number" /\ subject \in Numbers
       \/ pc = "string" /\ subject \in [text : Strings, encoding : Encodings]
       \/ pc = "id2" /\ subject \in V2Names
    /\ stream = <<>>
    /\ outcome = None
    /\ version = "V4" /\ frames = <<>> /\ nextUid = 1 /\ last = None /\ trail = <<>>
    /\ raw = <<>> /\ ui = unsynchronized /\ unsynced = <<>>
    /\ di = deunsynchronized /\ resynced = <<>>

Synchsafe ==
    /\ pc = "number"
    /\ stream' = synchsafe(subject)
    /\ pc' = "synchsafed"
    /\ UNCHANGED <<subject, outcome, tagVars, unsyncVars>>

Unsynchsafe ==
    /\ pc = "synchsafed"
    /\ outcome' = unsynchsafe(stream)
    /\ pc' = "unsynchsafed"
    /\ UNCHANGED <<subject, stream, tagVars, unsyncVars>>

\* a panic of encode_string ends the run of the caller
EncodeString ==
    /\ pc = "string"
    /\ stream' = encode_string(subject.text, subject.encoding)
    /\ pc' = IF stream'.panic THEN "panicked" ELSE "encoded_string"
    /\ UNCHANGED <<subject, outcome, tagVars, unsyncVars>>

StringFromEncoding ==
    /\ pc = "encoded_string"
    /\ outcome' = string_from_encoding(subject.encoding, stream.bytes)
    /\ pc' = "string_decoded"
    /\ UNCHANGED <<subject, stream, tagVars, unsyncVars>>

ConvertId2To3 ==
    /\ pc = "id2"
    /\ stream' = convert_id_2_to_3(subject)
    /\ pc' = "id3"
    /\ UNCHANGED <<subject, outcome, tagVars, unsyncVars>>

ConvertId3To2 ==
    /\ pc = "id3"
    /\ stream.some
    /\ outcome' = convert_id_3_to_2(stream.value)
    /\ pc' = "id2_again"
    /\ UNCHANGED <<subject, stream, tagVars, unsyncVars>>

NextUtil ==
    \/ Synchsafe \/ Unsynchsafe
    \/ EncodeString \/ StringFromEncoding
    \/ ConvertId2To3 \/ ConvertId3To2

SpecUtil == InitUtil /\ [][NextUtil]_vars

\* C15: for every n below 2^28, unsynchsafe(synchsafe(n)) is n; and
\* synchsafe(176994) is 681570.
C15_SynchsafeRoundTrip ==
    /\ pc = "unsynchsafed" => outcome = subject
    /\ pc = "synchsafed" /\ subject = 176994 => stream = 681570

C15_Witness ==
    pc = "unsynchsafed" /\ subject = 176994 /\ stream = 681570 /\ outcome = 176994

\* C16: for every encoding E and every string S, encode_string(S, E) returns
\* bytes from which string_from_encoding(E, ..) returns S.
C16_StringsSurviveEncoding ==
    /\ pc # "panicked"
    /\ pc = "string_decoded" => outcome = Some(subject.text)

\* C17: for every ID3v2.2 ID X for which convert_id_2_to_3(X) is defined,
\* convert_id_3_to_2 of it is defined and is X.
C17_RenameTablesInvert ==
    pc = "id2_again" => outcome = Some(subject)

C17_Witness ==
    pc = "id2_again" /\ subject = <<84, 84, 50>> /\ stream = Some(<<84, 73, 84, 50>>)

-----------------------------------------------------------------------------
(* id3v2/mod.rs: the tag codec.  A tag is Tag { version, flags, frames,    *)
(* size, offset, extended_header }, its flags the byte of TagFlags.        *)

\* TagFlag::value
TagFlag_value(which) ==
    CASE which = "Unsynchronization" -> 128
      [] which = "ExtendedHeader" -> 64
      [] which = "Experimental" -> 32
      [] which = "Footer" -> 16
      [] which = "Compression" -> 64

\* TagFlags::supported and TagFlags::get, on the byte and the version
TagFlags_supported(v, which) ==
    CASE which = "Unsynchronization" -> TRUE
      [] which \in {"ExtendedHeader", "Experimental"} -> VersionNum(v) >= 3
      [] which = "Footer" -> VersionNum(v) >= 4
      [] which = "Compression" -> v = "V2"

TagFlags_get(byte, v, which) ==
    TagFlags_supported(v, which) /\ HasBit(byte, TagFlag_value(which))

\* Tag::new and Tag::with_version
Tag_new ==
    [version |-> "V4", flags |-> 0, frames |-> <<>>, size |-> 0, offset |-> 0,
     extended_header |-> NoneOpt]

with_version(v) == [Tag_new EXCEPT !.version = v]

\* the indices, from the most significant bit, of the bits set in a flag
\* byte that is the k-th flag byte of the extended header
FlagIndices(flag_byte, k) ==
    LET set(bit) == (flag_byte \div Pow2(7 - bit)) % 2 = 1
        RECURSIVE from(_)
        from(bit) == IF bit > 7 THEN <<>>
                     ELSE (IF set(bit) THEN <<8 * (k - 1) + bit>> ELSE <<>>) \o from(bit + 1)
    IN  from(0)

\* the loop of ExtendedHeader::parse over the flag bytes
RECURSIVE ReadFlagBytes(_, _, _)
ReadFlagBytes(reader, n, k) ==
    IF k > n THEN [ok |-> TRUE, flags |-> <<>>, rest |-> reader]
    ELSE LET b == ReadExact(reader, 1)
         IN  IF ~b.ok THEN [ok |-> FALSE, flags |-> <<>>, rest |-> <<>>]
             ELSE LET more == ReadFlagBytes(b.rest, n, k + 1)
                  IN  IF ~more.ok THEN more
                      ELSE [ok |-> TRUE, flags |-> FlagIndices(b.bytes[1], k) \o more.flags,
                            rest |-> more.rest]

\* the loop of ExtendedHeader::parse over the flags: each payload is a size
\* byte and the data, read with a short read
RECURSIVE ReadFlagData(_, _, _)
ReadFlagData(reader, flags, size_remaining) ==
    IF flags = <<>> THEN [kind |-> "ok", flag_data |-> <<>>, len |-> 0, rest |-> reader]
    ELSE LET b == ReadExact(reader, 1)
         IN  IF ~b.ok THEN [kind |-> "err", flag_data |-> <<>>, len |-> 0, rest |-> <<>>]
             ELSE IF size_remaining < b.bytes[1]
             THEN [kind |-> "panic", flag_data |-> <<>>, len |-> 0, rest |-> <<>>]
             ELSE LET datum == ReadShort(b.rest, b.bytes[1])
                      more == ReadFlagData(datum.rest, Tail(flags),
                                           size_remaining - b.bytes[1])
                  IN  IF more.kind # "ok" THEN more
                      ELSE [kind |-> "ok",
                            flag_data |-> <<[flag |-> Head(flags), data |-> datum.bytes]>>
                                          \o more.flag_data,
                            len |-> 1 + b.bytes[1] + more.len,
                            rest |-> more.rest]

\* ExtendedHeader::parse for V3 and V4: the header, the bytes it took, the rest
ExtendedHeader_parse(reader, v) ==
    LET sz == ReadExact(reader, 4)
        size == unsynchsafe(be_u32(sz.bytes))
        nb == IF v = "V3" THEN [ok |-> TRUE, bytes |-> <<2>>, rest |-> sz.rest]
              ELSE ReadExact(sz.rest, 1)
        fb == ReadFlagBytes(nb.rest, nb.bytes[1], 1)
        fd == ReadFlagData(fb.rest, fb.flags, size)
    IN  IF ~sz.ok \/ ~nb.ok \/ ~fb.ok
        THEN [kind |-> "err", eh |-> <<>>, offset |-> 0, rest |-> <<>>]
        ELSE IF fd.kind # "ok"
        THEN [kind |-> fd.kind, eh |-> <<>>, offset |-> 0, rest |-> <<>>]
        ELSE [kind |-> "ok", eh |-> fd.flag_data,
              offset |-> 4 + (IF v = "V4" THEN 1 ELSE 0) + nb.bytes[1] + fd.len,
              rest |-> fd.rest]

\* ExtendedFlag::from_index for V3 and V4: the flag of a bit index
from_index(n, v) ==
    CASE v = "V3" /\ n = 0 -> "Crc"
      [] v = "V4" /\ n = 1 -> "Update"
      [] v = "V4" /\ n = 2 -> "Crc"
      [] v = "V4" /\ n = 3 -> "TagRestrictions"
      [] OTHER -> "Unknown"

\* ExtendedHeader::size
RECURSIVE flag_data_len(_)
flag_data_len(eh) ==
    IF eh = <<>> THEN 0 ELSE Len(Head(eh).data) + flag_data_len(Tail(eh))

ExtendedHeader_size(eh) == 4 + 1 + flag_data_len(eh)

\* the loop of ExtendedHeader::serialize over the payloads
RECURSIVE WritePayloads(_)
WritePayloads(eh) ==
    IF eh = <<>> THEN <<>>
    ELSE <<Len(Head(eh).data) % 256>> \o Head(eh).data \o WritePayloads(Tail(eh))

\* ExtendedHeader::serialize for V3 and V4
ExtendedHeader_serialize(eh, v) ==
    u32_to_bytes(synchsafe(ExtendedHeader_size(eh)))
        \o (IF v = "V3" THEN <<1>> ELSE <<42>>)
        \o WritePayloads(eh)

\* what read_tag returns: none (Ok(None)), tag (Ok(Some(tag))), err, or it
\* does not return: panic, hang
TagResult(kind, tag) == [kind |-> kind, tag |-> tag]

\* the while loop of read_tag
RECURSIVE ReadFrames(_, _, _, _)
\* the body of the loop, on the result r of Frame::read_from
ReadFrame(r, tag, offset, checks) ==
    CASE r.kind = "padding" -> TagResult("tag", [tag EXCEPT !.offset = offset])
      [] r.kind = "frame" ->
           ReadFrames(r.rest, [tag EXCEPT !.frames = Append(@, r.frame)],
                      offset + r.bytes_read, checks)
      [] OTHER -> TagResult(r.kind, None)

ReadFrames(reader, tag, offset, checks) ==
    IF ~(offset < tag.size + 10)
    THEN TagResult("tag", [tag EXCEPT !.offset = offset])
    ELSE ReadFrame(Frame_read_from(reader, tag.version, checks), tag, offset, checks)

\* read_tag from the extended header eh on
ReadExtended(eh, tag, checks) ==
    IF eh.kind # "ok" THEN TagResult(eh.kind, None)
    ELSE ReadFrames(eh.rest, [tag EXCEPT !.extended_header = Some(eh.eh)],
                    10 + eh.offset, checks)

\* read_tag
read_tag(reader, checks) ==
    LET identifier == ReadShort(reader, 3)
        version_bytes == ReadShort(identifier.rest, 2)
        v == CASE version_bytes.bytes = <<2, 0>> -> "V2"
               [] version_bytes.bytes = <<3, 0>> -> "V3"
               [] version_bytes.bytes = <<4, 0>> -> "V4"
               [] OTHER -> "none"
        fl == ReadExact(version_bytes.rest, 1)
        byte == fl.bytes[1]
        sz == ReadExact(fl.rest, 4)
        tag == [with_version(v) EXCEPT !.flags = byte,
                                       !.size = unsynchsafe(be_u32(sz.bytes))]
    IN  IF identifier.bytes # <<73, 68, 51>> THEN TagResult("none", None)
        ELSE IF v = "none" THEN TagResult("err", None)
        ELSE IF ~fl.ok THEN TagResult("err", None)
        ELSE IF ~TagFlags_get(byte, v, "Unsynchronization")
                /\ TagFlags_get(byte, v, "Compression")
        THEN TagResult("panic", None)
        ELSE IF ~sz.ok THEN TagResult("err", None)
        ELSE IF ~TagFlags_get(byte, v, "ExtendedHeader")
        THEN ReadFrames(sz.rest, tag, 10, checks)
        ELSE ReadExtended(ExtendedHeader_parse(sz.rest, v), tag, checks)

\* the loop of Tag::write_to and of Tag::size over the frames
RECURSIVE WriteFrames(_)
WriteFrames(fs) ==
    IF fs = <<>> THEN WriteResult(FALSE, <<>>, 0)
    ELSE LET one == Frame_write_to(Head(fs))
             more == WriteFrames(Tail(fs))
         IN  IF one.panic \/ more.panic THEN WriteResult(TRUE, <<>>, 0)
             ELSE WriteResult(FALSE, one.bytes \o more.bytes, one.size + more.size)

Tag_size(tag) == 10 + WriteFrames(tag.frames).size

\* u32::to_be on a little-endian target: the bytes are swapped
to_be(n) ==
    LET b == u32_to_bytes(n)
    IN  be_u32(<<b[4], b[3], b[2], b[1]>>)

\* Tag::write_to
Tag_write_to(tag) ==
    LET body == WriteFrames(tag.frames)
    IN  IF body.panic THEN WriteResult(TRUE, <<>>, 0)
        ELSE WriteResult(FALSE,
                         <<73, 68, 51>> \o <<VersionNum(tag.version), 0>> \o <<tag.flags>>
                             \o u32_to_bytes(to_be(synchsafe(Tag_size(tag))))
                             \o body.bytes,
                         10 + body.size)

-----------------------------------------------------------------------------
(* The codecs: a frame of the catalog goes through parsers::encode and     *)
(* parsers::decode, a tag through Tag::write_to and read_tag, and a byte   *)
(* string goes through read_tag.                                           *)

\* a frame with the fields of its catalog entry, as the frame reader builds it
\* and as a caller of Frame::new fills it
WithFields(id, fields) == [Frame_new(id) EXCEPT !.fields = fields]

\* the payloads of "", "a" and "b" in an encoding
Payloads(encoding) ==
    {encode_string(text, encoding).bytes : text \in {<<>>, <<97>>, <<98>>}}

\* frames whose fields follow the catalog entry of their ID
FieldSubjects ==
    {WithFields(IdOf("V2", <<84, 65, 76>>),
                <<Fld("TextEncoding", x[1]), Fld("String", x[2])>>) :
        x \in UNION {{e} \X Payloads(e) : e \in {"Latin1", "UTF16"}}}
    \cup {WithFields(IdOf("V4", <<84, 65, 76, 66>>),
                     <<Fld("TextEncoding", x[1]), Fld("StringList", x[2])>>) :
             x \in UNION {{e} \X SeqsUpTo(Payloads(e) \ {<<>>}, MaxStrings) : e \in Encodings}}
    \cup {WithFields(IdOf("V2", <<67, 78, 84>>), <<Fld("Int32Plus", BigNum_new(d))>>) :
             d \in {<<>>, <<1>>, <<0, 1>>}}
    \cup {WithFields(IdOf("V2", <<67, 79, 77>>),
                     <<Fld("TextEncoding", x[1]), Fld("Language", <<101, 110, 103>>),
                       Fld("String", x[2]), Fld("String", x[3])>>) :
             x \in UNION {{e} \X Payloads(e) \X (Payloads(e) \ {<<>>}) :
                             e \in {"Latin1", "UTF16"}}}
    \cup {WithFields(IdOf("V4", <<76, 73, 78, 75>>),
                     <<Fld("FrameIdV34", <<84, 65, 76, 66>>), Fld("Latin1", <<117>>),
                       Fld("Latin1List", l)>>) :
             l \in SeqsUpTo({<<97>>, <<98>>}, MaxStrings)}
    \cup {WithFields(IdOf("V2", <<66, 85, 70>>),
                     <<Fld("Int24", <<0, 1, 0>>), Fld("Int8", <<1>>),
                       Fld("Int32", <<0, 0, 0, 9>>)>>)}

Grouped(frame, symbol) ==
    [frame EXCEPT !.flags.grouping_identity = TRUE, !.group_symbol = symbol]

\* the frames of the tags written: plain, compressed and grouped text frames
TagFrames(v) ==
    CASE v = "V2" ->
           {WithFields(IdOf("V2", <<84, 65, 76>>),
                       <<Fld("TextEncoding", "Latin1"), Fld("String", <<97>>)>>),
            WithFields(IdOf("V2", <<67, 78, 84>>), <<Fld("Int32Plus", <<1>>)>>)}
      [] v = "V3" ->
           LET talb == WithFields(IdOf("V3", <<84, 65, 76, 66>>),
                                  <<Fld("TextEncoding", "UTF16"),
                                    Fld("StringList", <<<<255, 254, 97, 0>>>>)>>)
           IN  {talb, set_compression(talb, TRUE), Grouped(talb, 128)}
      [] v = "V4" ->
           LET talb == WithFields(IdOf("V4", <<84, 65, 76, 66>>),
                                  <<Fld("TextEncoding", "UTF8"), Fld("StringList", <<<<97>>>>)>>)
           IN  {talb, set_compression(talb, TRUE), Grouped(talb, 128)}

\* the flag bytes of the tags written, none with the unsynchronization bit
TagFlagBytes(v) ==
    CASE v = "V2" -> {0}
      [] v = "V3" -> {0, 32, 64}
      [] v = "V4" -> {0, 16, 32, 64}

TagSubjects ==
    {[with_version(x[1]) EXCEPT
        !.flags = x[2], !.frames = x[3],
        !.extended_header = IF HasBit(x[2], 64) THEN Some(<<>>) ELSE NoneOpt] :
        x \in UNION {{v} \X TagFlagBytes(v) \X SeqsUpTo(TagFrames(v), MaxTagFrames) :
                        v \in Versions}}

\* what follows the ten bytes of the tag header in the inputs of read_tag
Bodies ==
    {<<>>,
     <<84, 65, 76, 0, 0, 2, 0, 97>>,                   \* TAL, Latin1 "a"
     <<84, 65, 76, 0, 0, 9, 0>>,                       \* TAL, cut short
     <<67, 82, 77, 0, 0, 1, 97>>,                      \* CRM, a String with no encoding
     <<84, 65, 76, 66, 0, 0, 0, 2, 0, 0, 0, 97>>,      \* TALB, Latin1 "a"
     <<88, 88, 88, 88, 0, 0, 0, 1, 0, 0, 0>>,          \* XXXX, not in the catalog
     <<84, 65, 76, 66, 0, 0, 0, 6, 0, 128, 0, 0, 0, 2, 0, 97>>,  \* V3 compressed, no zlib
     <<84, 65, 76, 66, 0, 0, 0, 2, 0, 128, 0, 0, 0, 0>>,     \* V3 compressed, size 2
     <<84, 65, 76, 66, 0, 0, 0, 7, 0, 9, 0, 0, 0, 2, 120, 0, 97>>,  \* V4 compressed
     <<84, 65, 76, 66, 0, 0, 0, 2, 0, 4, 0, 97>>,      \* V4 encrypted
     <<84, 65, 76, 66, 0, 0, 0, 2, 0, 64, 5, 0, 97>>,  \* V3 encrypted, method 5
     <<0, 0, 0, 6, 1, 64, 0>>,                         \* V4 extended header, Update
     <<0, 0, 0, 0, 1, 64, 5>>,                         \* V4 extended header, size 0
     <<0, 0, 0, 6, 128, 0, 1, 7>>}                     \* V3 extended header, CRC

ByteInputs ==
    {Take(x[1] \o x[2] \o <<x[3]>> \o <<0, 0, 0, 30>> \o x[4], x[5]) :
        x \in {<<73, 68, 51>>, <<73, 68, 50>>}
              \X {<<2, 0>>, <<3, 0>>, <<4, 0>>, <<5, 0>>}
              \X {0, 64, 128, 192}
              \X Bodies
              \X {4, 5, 8, 40}}

\* frames with an ID that no table of the catalog holds, as the frame
\* readers build them before the content is parsed
UnknownSubjects ==
    {Frame_new(IdOf("V4", <<84, 90, 90, 90>>)), Frame_new(IdOf("V3", <<87, 90, 90, 90>>)),
     Frame_new(IdOf("V4", <<88, 88, 88, 88>>)), Frame_new(IdOf("V2", <<84, 90, 90>>)),
     Frame_new(IdOf("V2", <<88, 90, 90>>))}

\* contents that are a text encoding byte and a text
Contents == {<<0>>, <<0, 97>>, <<3, 97, 98>>}

\* extended headers from the size field on: Update, CRC, TagRestrictions and
\* bit 0 in the V4 layout, bit 0 and bit 1 in the V3 layout, and no flag
HeaderInputs ==
    {<<0, 0, 0, 6, 1, 64, 0>>,
     <<0, 0, 0, 11, 1, 32, 5, 1, 2, 3, 4, 5>>,
     <<0, 0, 0, 7, 1, 16, 1, 3>>,
     <<0, 0, 0, 7, 1, 128, 1, 9>>,
     <<0, 0, 0, 8, 1, 144, 1, 9, 1, 3>>,
     <<0, 0, 0, 10, 128, 0, 4, 1, 2, 3, 4>>,
     <<0, 0, 0, 7, 64, 0, 1, 9>>,
     <<0, 0, 0, 6, 0, 0>>}

InitCodec ==
    /\ \/ pc = "encode" /\ subject \in FieldSubjects /\ stream = <<>>
       \/ pc = "parse" /\ subject \in UnknownSubjects /\ stream \in Contents
       \/ pc = "write" /\ subject \in TagSubjects /\ stream = <<>>
       \/ pc = "read" /\ subject = None /\ stream \in ByteInputs
       \/ pc = "header" /\ subject \in [version : {"V3", "V4"}] /\ stream \in HeaderInputs
    /\ outcome = None
    /\ version = "V4" /\ frames = <<>> /\ nextUid = 1 /\ last = None /\ trail = <<>>
    /\ raw = <<>> /\ ui = unsynchronized /\ unsynced = <<>>
    /\ di = deunsynchronized /\ resynced = <<>>

\* Frame::fields_to_bytes, parsers::encode
Encode ==
    /\ pc = "encode"
    /\ LET r == fields_to_bytes(subject)
       IN  /\ stream' = r.bytes
           /\ pc' = IF r.panic THEN "encode_panicked" ELSE "decode"
    /\ UNCHANGED <<subject, outcome>>
    /\ UNCHANGED tagVars /\ UNCHANGED unsyncVars

\* parsers::decode
Decode ==
    /\ pc \in {"decode", "parse"}
    /\ outcome' = decode(subject.id, stream)
    /\ pc' = IF pc = "decode" THEN "decoded" ELSE "parsed"
    /\ UNCHANGED <<subject, stream>>
    /\ UNCHANGED tagVars /\ UNCHANGED unsyncVars

\* Tag::write_to
WriteTo ==
    /\ pc = "write"
    /\ LET r == Tag_write_to(subject)
       IN  /\ stream' = r.bytes
           /\ pc' = IF r.panic THEN "write_panicked" ELSE "reread"
    /\ UNCHANGED <<subject, outcome>>
    /\ UNCHANGED tagVars /\ UNCHANGED unsyncVars

\* read_tag, on the bytes written or on the bytes given, in a build with or
\* without overflow checks
ReadTag ==
    /\ pc \in {"reread", "read"}
    /\ \E checks \in BOOLEAN : outcome' = read_tag(stream, checks)
    /\ pc' = IF pc = "reread" THEN "reread_done" ELSE "read_done"
    /\ UNCHANGED <<subject, stream>>
    /\ UNCHANGED tagVars /\ UNCHANGED unsyncVars

\* ExtendedHeader::parse
ParseHeader ==
    /\ pc = "header"
    /\ LET r == ExtendedHeader_parse(stream, subject.version)
       IN  /\ outcome' = [kind |-> r.kind, eh |-> r.eh]
           /\ pc' = IF r.kind = "ok" THEN "header_parsed" ELSE "header_failed"
    /\ UNCHANGED <<subject, stream>>
    /\ UNCHANGED tagVars /\ UNCHANGED unsyncVars

\* ExtendedHeader::serialize, of the header parsed
SerializeHeader ==
    /\ pc = "header_parsed"
    /\ stream' = ExtendedHeader_serialize(outcome.eh, subject.version)
    /\ pc' = "header_written"
    /\ UNCHANGED <<subject, outcome>>
    /\ UNCHANGED tagVars /\ UNCHANGED unsyncVars

NextCodec == Encode \/ Decode \/ WriteTo \/ ReadTag \/ ParseHeader \/ SerializeHeader

SpecCodec == InitCodec /\ [][NextCodec]_vars

\* C3: for a frame whose ID is in the catalog and whose fields follow the
\* catalog entry of the ID (lists of any number of strings and Int32Plus
\* counters included), the fields are encoded without a panic and decoding
\* the bytes yields a field sequence equal to that of the frame.
C3_FieldsSurviveEncodeDecode ==
    /\ pc # "encode_panicked"
    /\ pc = "decoded" => outcome = [kind |-> "ok", fields |-> subject.fields]

\* the ids, the frame flags and the fields of two frame sequences, in order
SameFrames(read, written) ==
    /\ Len(read) = Len(written)
    /\ \A i \in 1..Len(written) :
          /\ read[i].id = written[i].id
          /\ read[i].flags = written[i].flags
          /\ read[i].fields = written[i].fields

\* C1: read_tag on the bytes Tag::write_to produced for a tag, written
\* without tag-level unsynchronization, yields a tag of the same version,
\* the same header flags and the same frame sequence.
C1_WriteThenReadIsIdentity ==
    /\ pc # "write_panicked"
    /\ pc = "reread_done" =>
          /\ outcome.kind = "tag"
          /\ outcome.tag.version = subject.version
          /\ outcome.tag.flags = subject.flags
          /\ SameFrames(outcome.tag.frames, subject.frames)

\* the bytes are a V3 or V4 tag without tag flags whose first frame has the
\* encryption bit in its flags: 0x0040 in V3, 0x0004 in V4
EncryptedFrameFirst(bytes) ==
    /\ Len(bytes) >= 20
    /\ SubSeq(bytes, 1, 3) = <<73, 68, 51>>
    /\ SubSeq(bytes, 4, 6) \in {<<3, 0, 0>>, <<4, 0, 0>>}
    /\ bytes[11] # 0
    /\ HasBit(bytes[20], IF bytes[4] = 3 THEN 64 ELSE 4)

\* C11: parsing a frame whose header has the encryption flag set (V3 0x0040,
\* V4 0x0004) returns an error and yields no frame.
C11_EncryptedFrameRejected ==
    pc = "read_done" /\ EncryptedFrameFirst(stream) => outcome.kind = "err"

\* C13: the four size bytes Tag::write_to places at offsets 6..9 of the
\* header are the big-endian synchsafe encoding of the number of bytes
\* written after the 10-byte header, and read_tag decodes that number as
\* the size of the tag.
C13_SizeFieldIsBodyLength ==
    /\ pc \in {"reread", "reread_done"} =>
          SubSeq(stream, 7, 10) = u32_to_bytes(synchsafe(Len(stream) - 10))
    /\ pc = "reread_done" /\ outcome.kind = "tag" =>
          outcome.tag.size = Len(stream) - 10

\* the schema of an ID that is not in the catalog
Fallback(id) ==
    CASE Id_name(id)[1] = 84 -> <<"TextEncoding", "StringList">>
      [] Id_name(id)[1] = 87 -> <<"Latin1">>
      [] OTHER -> <<"BinaryData">>

\* C14: a frame whose ID is not in the catalog is parsed with the fallback
\* schema, {TextEncoding, StringList} for T, {Latin1} for W and {BinaryData}
\* for every other ID, and is no error.
C14_UnknownIdsParsedWithFallback ==
    pc = "parsed" =>
        /\ outcome.kind = "ok"
        /\ [i \in 1..Len(outcome.fields) |-> outcome.fields[i].kind] = Fallback(subject.id)

\* the payloads of the recognised flags
Recognised(eh, v) ==
    LET known(entry) == from_index(entry.flag, v) # "Unknown"
    IN  SelectSeq(eh, known)

\* C19: the extended header that serialize emits holds the payloads of the
\* recognised flags (Update, CRC, TagRestrictions) alone, and its size field
\* covers those payloads alone; no payload of an Unknown flag is emitted.
C19_UnknownPayloadsNotEmitted ==
    pc = "header_written" =>
        stream = ExtendedHeader_serialize(Recognised(outcome.eh, subject.version),
                                          subject.version)

\* C24: a tag of ID3v2.2 whose flag byte has the compression bit 0x40 set is
\* rejected by read_tag with an error and no tag, whatever the other flag
\* bits are.
C24_V2CompressionRejected ==
    /\ pc = "read_done"
    /\ Len(stream) >= 6
    /\ Take(stream, 5) = <<73, 68, 51, 2, 0>>
    /\ HasBit(stream[6], 64)
    => outcome = TagResult("err", None)

\* C5: on every byte input read_tag returns no tag, a tag or an error; it
\* neither panics nor hangs, and no tag comes with a failure.
C5_ReadTagReturnsOrFails ==
    pc = "read_done" =>
        /\ outcome.kind \in {"none", "tag", "err"}
        /\ outcome.kind # "tag" => outcome.tag = None

-----------------------------------------------------------------------------
(* The tag machine: a tag as Tag::new, Tag::with_version or read_tag       *)
(* returns it, and then any sequence of calls of its mutators.             *)

\* the frame identifiers the callers pass
IdPool ==
    {IdOf("V2", <<84, 65, 76>>), IdOf("V2", <<67, 79, 77>>),
     IdOf("V3", <<84, 65, 76, 66>>), IdOf("V3", <<69, 81, 85, 65>>),
     IdOf("V4", <<84, 65, 76, 66>>), IdOf("V4", <<84, 68, 82, 67>>)}

\* the strings the callers pass: "a"
Texts == {<<97>>}

\* the encodings the callers pass: one every version supports, one only V4 does
EncodingPool == {"Latin1", "UTF8"}

FramePool(v) ==
    CASE v = "V2" ->
           {WithFields(IdOf("V2", <<84, 65, 76>>),
                       <<Fld("TextEncoding", "Latin1"), Fld("String", <<97>>)>>),
            set_compression(
                WithFields(IdOf("V2", <<67, 79, 77>>),
                           <<Fld("TextEncoding", "Latin1"), Fld("Language", <<101, 110, 103>>),
                             Fld("String", <<>>), Fld("String", <<97>>)>>), TRUE)}
      [] v = "V3" ->
           {WithFields(IdOf("V3", <<84, 65, 76, 66>>),
                       <<Fld("TextEncoding", "UTF16"), Fld("StringList", <<<<255, 254, 97, 0>>>>)>>),
            WithFields(IdOf("V3", <<69, 81, 85, 65>>),
                       <<Fld("Int8", 1), Fld("BinaryData", <<>>)>>)}
      [] v = "V4" ->
           {WithFields(IdOf("V4", <<84, 65, 76, 66>>),
                       <<Fld("TextEncoding", "UTF8"), Fld("StringList", <<<<97>>>>)>>),
            WithFields(IdOf("V4", <<84, 68, 82, 67>>),
                       <<Fld("TextEncoding", "UTF16BE"), Fld("StringList", <<<<0, 97>>>>)>>)}

\* the frames of a tag just built or read, numbered by their ghost uids
Numbered(fs) == [i \in 1..Len(fs) |-> [fs[i] EXCEPT !.uid = i]]

Init ==
    /\ pc = "tag"
    /\ version \in Versions
    /\ \E fs \in SeqsUpTo(FramePool(version), 2) :
          /\ frames = Numbered(fs)
          /\ nextUid = Len(fs) + 1
    /\ last = [op |-> "new"]
    /\ trail = <<>>
    /\ raw = <<>> /\ ui = unsynchronized /\ unsynced = <<>>
    /\ di = deunsynchronized /\ resynced = <<>>
    /\ subject = None /\ stream = <<>> /\ outcome = None

\* the ghost trail: the tag before convert_version(V3) when that was the last
\* call and the tag was V4, and also the tag before convert_version(V4) when
\* that call came next
Remember(t, ver, fs, to) ==
    LET snap == [version |-> ver, frames |-> fs]
    IN  IF ver = "V4" /\ to = "V3" THEN <<snap>>
        ELSE IF Len(t) = 1 /\ ver = "V3" /\ to = "V4" THEN Append(t, snap)
        ELSE <<>>

AddFrame ==
    /\ pc = "tag" /\ nextUid <= MaxUid
    /\ \E v \in Versions : \E f \in FramePool(v) :
          LET r == add_frame(version, frames, [f EXCEPT !.uid = nextUid])
          IN  /\ Len(r.frames) <= MaxFrames
              /\ frames' = r.frames
              /\ nextUid' = IF r.ret THEN nextUid + 1 ELSE nextUid
              /\ last' = [op |-> "add_frame", ret |-> r.ret]
    /\ trail' = <<>>
    /\ UNCHANGED <<pc, version>>
    /\ UNCHANGED unsyncVars /\ UNCHANGED codecVars

AddTextFrame ==
    /\ pc = "tag" /\ nextUid <= MaxUid
    /\ \E id \in IdPool : \E text \in Texts :
          LET r == add_text_frame(frames, id, text, nextUid)
          IN  /\ Len(r.frames) <= MaxFrames
              /\ frames' = r.frames
              /\ nextUid' = IF r.ret THEN nextUid + 1 ELSE nextUid
              /\ last' = [op |-> "add_text_frame", id |-> id, text |-> text,
                          ret |-> r.ret]
    /\ trail' = <<>>
    /\ UNCHANGED <<pc, version>>
    /\ UNCHANGED unsyncVars /\ UNCHANGED codecVars

AddTextFrameEnc ==
    /\ pc = "tag" /\ nextUid <= MaxUid
    /\ \E id \in IdPool : \E text \in Texts : \E encoding \in EncodingPool :
          LET r == add_text_frame_enc(frames, id, text, encoding, nextUid)
          IN  /\ Len(r.frames) <= MaxFrames
              /\ frames' = r.frames
              /\ nextUid' = IF r.ret = "unit" THEN nextUid + 1 ELSE nextUid
              /\ pc' = IF r.ret = "panic" THEN "panicked" ELSE pc
              /\ last' = [op |-> "add_text_frame_enc", id |-> id, text |-> text,
                          encoding |-> encoding, ret |-> r.ret]
    /\ trail' = <<>>
    /\ UNCHANGED version
    /\ UNCHANGED unsyncVars /\ UNCHANGED codecVars

RemoveFramesById ==
    /\ pc = "tag"
    /\ \E id \in IdPool :
          /\ frames' = remove_frames_by_id(frames, id)
          /\ last' = [op |-> "remove_frames_by_id"]
    /\ trail' = <<>>
    /\ UNCHANGED <<pc, version, nextUid>>
    /\ UNCHANGED unsyncVars /\ UNCHANGED codecVars

ConvertVersion ==
    /\ pc = "tag"
    /\ \E to \in Versions :
          LET r == Tag_convert_version(version, frames, to)
          IN  /\ version' = r.version
              /\ frames' = r.frames
              /\ last' = [op |-> "convert_version", to |-> to]
              /\ trail' = Remember(trail, version, frames, to)
    /\ UNCHANGED <<pc, nextUid>>
    /\ UNCHANGED unsyncVars /\ UNCHANGED codecVars

Next ==
    \/ AddFrame
    \/ AddTextFrame
    \/ AddTextFrameEnc
    \/ RemoveFramesById
    \/ ConvertVersion

Spec == Init /\ [][Next]_vars

-----------------------------------------------------------------------------
(* The frame machine: a frame as Frame::new or Frame::read_from builds it, *)
(* under Frame::set_compression and Frame::convert_version.  version holds *)
(* the version the frame is of: that of its reader or of Frame::new, then  *)
(* the target of the last convert_version that returned true.              *)

\* frames as they stand in a file: text frames, plain and compressed
FrameInputs ==
    {<<84, 65, 76, 0, 0, 2, 0, 97>>,                           \* TAL, Latin1 "a"
     <<84, 68, 65, 0, 0, 2, 0, 97>>,                           \* TDA, not renamed
     <<84, 65, 76, 66, 0, 0, 0, 2, 0, 0, 0, 97>>,              \* TALB, Latin1 "a"
     <<84, 65, 76, 66, 0, 0, 0, 2, 0, 0, 3, 97>>,              \* TALB, UTF8 "a"
     <<84, 68, 82, 67, 0, 0, 0, 2, 0, 0, 0, 97>>,              \* TDRC, not renamed
     <<84, 65, 76, 66, 0, 0, 0, 7, 0, 128, 0, 0, 0, 2, 120, 0, 97>>,  \* V3 compressed
     <<84, 65, 76, 66, 0, 0, 0, 7, 0, 9, 0, 0, 0, 2, 120, 0, 97>>,    \* V4 compressed
     <<84, 65, 76, 66, 0, 0, 0, 3, 0, 8, 120, 0, 97>>,         \* V4 compressed, no length
     <<84, 65, 76, 66, 0, 0, 0, 2, 0, 32, 7, 0, 97>>,          \* V3 grouped, symbol 7
     <<84, 65, 76, 66, 0, 0, 0, 2, 0, 64, 7, 0, 97>>,          \* V4 grouped, symbol 7
     <<84, 65, 76, 66, 0, 0, 0, 6, 0, 1, 0, 0, 0, 2, 0, 97>>}  \* V4 with a data length

InitFrame ==
    /\ \/ /\ pc = "frame_bytes"
          /\ version \in Versions
          /\ stream \in FrameInputs
          /\ subject = None
       \/ /\ pc = "frame"
          /\ \E id \in IdPool : subject = Frame_new(id) /\ version = Id_version(id)
          /\ stream = <<>>
    /\ outcome = None
    /\ frames = <<>> /\ nextUid = 1 /\ last = None /\ trail = <<>>
    /\ raw = <<>> /\ ui = unsynchronized /\ unsynced = <<>>
    /\ di = deunsynchronized /\ resynced = <<>>

\* Frame::read_from
FrameRead ==
    /\ pc = "frame_bytes"
    /\ \E checks \in BOOLEAN :
          LET r == Frame_read_from(stream, version, checks)
          IN  /\ outcome' = [kind |-> r.kind, bytes_read |-> r.bytes_read,
                              rest |-> r.rest]
              /\ subject' = r.frame
              /\ pc' = IF r.kind = "frame" THEN "frame" ELSE "no_frame"
    /\ UNCHANGED <<version, stream, frames, nextUid, last, trail>>
    /\ UNCHANGED unsyncVars

\* Frame::set_compression
SetCompression ==
    /\ pc = "frame"
    /\ \E compression \in BOOLEAN :
          /\ subject' = set_compression(subject, compression)
          /\ outcome' = [kind |-> "set_compression"]
    /\ UNCHANGED <<pc, version, stream, frames, nextUid, last, trail>>
    /\ UNCHANGED unsyncVars

\* Frame::convert_version
FrameConvertVersion ==
    /\ pc = "frame"
    /\ \E to \in Versions :
          LET r == Frame_convert_version(subject, to)
          IN  /\ subject' = r.frame
              /\ version' = IF r.ret THEN to ELSE version
              /\ outcome' = [kind |-> "convert_version", ret |-> r.ret]
    /\ UNCHANGED <<pc, stream, frames, nextUid, last, trail>>
    /\ UNCHANGED unsyncVars

NextFrame == FrameRead \/ SetCompression \/ FrameConvertVersion

SpecFrame == InitFrame /\ [][NextFrame]_vars

\* the bytes are a V4 frame header with the compression bit and without the
\* data length indicator bit
CompressedWithoutLength(bytes) ==
    /\ Len(bytes) >= 10
    /\ bytes[1] # 0
    /\ HasBit(bytes[10], 8)
    /\ ~HasBit(bytes[10], 1)

\* C12: a V4 frame that FrameV4::read produced, or that set_compression and
\* convert_version calls made of a frame, has its data_length_indicator flag
\* set whenever its compression flag is set; a V4 header with compression
\* and without data_length_indicator is rejected on parse.
C12_CompressionNeedsLengthIndicator ==
    /\ pc = "frame" /\ version = "V4" =>
          (subject.flags.compression => subject.flags.data_length_indicator)
    /\ pc = "no_frame" /\ version = "V4" /\ CompressedWithoutLength(stream) =>
          outcome.kind = "err"

\* C26: for every frame read with success in V2, V3 or V4, whatever its
\* grouping identity, compression and data length indicator flags, the byte
\* count the frame reader returns is the number of bytes it consumed, so
\* that the offset of read_tag is the position of the next frame header.
C26_BytesReadIsBytesConsumed ==
    outcome # None /\ outcome.kind = "frame" =>
        outcome.bytes_read = Len(stream) - Len(outcome.rest)

-----------------------------------------------------------------------------
(* The accessor machines: a tag on which remove_txxx is called, and a V4   *)
(* tag on which set_track_enc, set_total_tracks_enc and remove_track are   *)
(* called in any order.                                                    *)

\* the most frames a tag starts with
MaxMetaFrames == 2

\* "k" / "v", "k" / "", "j" / "v" in Latin1, "k" / "v" in UTF-16, the frame
\* as add_txxx_enc pushes it, and a text frame of another ID
TxxxPool(v) ==
    {WithFields(txxx_id(v), <<Fld("TextEncoding", "Latin1"), Fld("String", <<107>>),
                              Fld("String", <<118>>)>>),
     WithFields(txxx_id(v), <<Fld("TextEncoding", "Latin1"), Fld("String", <<107>>),
                              Fld("String", <<>>)>>),
     WithFields(txxx_id(v), <<Fld("TextEncoding", "Latin1"), Fld("String", <<106>>),
                              Fld("String", <<118>>)>>),
     WithFields(txxx_id(v), <<Fld("TextEncoding", "UTF16"),
                              Fld("String", <<255, 254, 107, 0>>),
                              Fld("String", <<255, 254, 118, 0>>)>>),
     Frame_new(txxx_id(v)),
     WithFields(IdOf(v, IF v = "V2" THEN <<84, 65, 76>> ELSE <<84, 65, 76, 66>>),
                <<Fld("TextEncoding", "Latin1"), Fld("String", <<97>>)>>)}

\* the keys and values the callers pass: None, "k" and "", None and "v"
Keys == {NoneOpt, Some(<<107>>), Some(<<>>)}
Values == {NoneOpt, Some(<<118>>)}

InitTxxx ==
    /\ pc = "txxx"
    /\ version \in Versions
    /\ frames \in SeqsUpTo(TxxxPool(version), MaxMetaFrames)
    /\ nextUid = 1
    /\ last = [op |-> "new"]
    /\ trail = <<>>
    /\ raw = <<>> /\ ui = unsynchronized /\ unsynced = <<>>
    /\ di = deunsynchronized /\ resynced = <<>>
    /\ subject = None /\ stream = <<>> /\ outcome = None

RemoveTxxx ==
    /\ pc = "txxx"
    /\ \E key \in Keys : \E val \in Values :
          /\ frames' = remove_txxx(version, frames, key, val)
          /\ last' = [op |-> "remove_txxx", key |-> key, val |-> val]
    /\ UNCHANGED <<pc, version, nextUid, trail>>
    /\ UNCHANGED unsyncVars /\ UNCHANGED codecVars

NextTxxx == RemoveTxxx

SpecTxxx == InitTxxx /\ [][NextTxxx]_vars

\* a text frame of another ID, TRCK frames whose text is "x/10", "5/x" and
\* "/10", and the TRCK frame as the frame reader parses it
TrackPool ==
    {WithFields(IdOf("V4", <<84, 65, 76, 66>>),
                <<Fld("TextEncoding", "Latin1"), Fld("String", <<97>>)>>),
     WithFields(track_id("V4"), <<Fld("TextEncoding", "Latin1"),
                                  Fld("String", <<120, 47, 49, 48>>)>>),
     WithFields(track_id("V4"), <<Fld("TextEncoding", "UTF16BE"),
                                  Fld("String", <<0, 53, 0, 47, 0, 120>>)>>),
     WithFields(track_id("V4"), <<Fld("TextEncoding", "UTF8"),
                                  Fld("String", <<47, 49, 48>>)>>),
     WithFields(track_id("V4"), <<Fld("TextEncoding", "UTF8"),
                                  Fld("StringList", <<<<53, 47, 49, 48>>>>)>>)}

\* the track numbers and totals the callers pass
Tracks == {5, 7}
Totals == {10, 12}

InitTrack ==
    /\ pc = "track"
    /\ version = "V4"
    /\ frames \in SeqsUpTo(TrackPool, MaxMetaFrames)
    /\ nextUid = 1
    /\ last = [op |-> "new"]
    /\ trail = <<>>
    /\ raw = <<>> /\ ui = unsynchronized /\ unsynced = <<>>
    /\ di = deunsynchronized /\ resynced = <<>>
    /\ subject = None /\ stream = <<>> /\ outcome = None

SetTrackEnc ==
    /\ pc = "track"
    /\ \E track \in Tracks : \E encoding \in Encodings :
          LET r == set_track_enc(version, frames, track, encoding)
          IN  /\ frames' = r.frames
              /\ pc' = IF r.ret = "panic" THEN "panicked" ELSE pc
              /\ last' = [op |-> "set_track_enc", n |-> track, encoding |-> encoding]
    /\ UNCHANGED <<version, nextUid, trail>>
    /\ UNCHANGED unsyncVars /\ UNCHANGED codecVars

SetTotalTracksEnc ==
    /\ pc = "track"
    /\ \E total_tracks \in Totals : \E encoding \in Encodings :
          LET r == set_total_tracks_enc(version, frames, total_tracks, encoding)
          IN  /\ frames' = r.frames
              /\ pc' = IF r.ret = "panic" THEN "panicked" ELSE pc
              /\ last' = [op |-> "set_total_tracks_enc", n |-> total_tracks,
                          encoding |-> encoding]
    /\ UNCHANGED <<version, nextUid, trail>>
    /\ UNCHANGED unsyncVars /\ UNCHANGED codecVars

\* AudioTag::remove_track
RemoveTrack ==
    /\ pc = "track"
    /\ frames' = remove_frames_by_id(frames, track_id(version))
    /\ last' = [op |-> "remove_track"]
    /\ UNCHANGED <<pc, version, nextUid, trail>>
    /\ UNCHANGED unsyncVars /\ UNCHANGED codecVars

NextTrack == SetTrackEnc \/ SetTotalTracksEnc \/ RemoveTrack

SpecTrack == InitTrack /\ [][NextTrack]_vars

\* the frame's key is the given one, or any when none is given; likewise the value
Matches(frame, key, val) ==
    /\ key.some =>
          string_from_encoding(frame.fields[1].val, frame.fields[2].val) = Some(key.value)
    /\ val.some =>
          string_from_encoding(frame.fields[1].val, frame.fields[3].val) = Some(val.value)

\* what a call of remove_txxx(key, val) is to leave of the frames: a TXXX
\* frame with a key and a value goes exactly when both match, every frame of
\* another ID stays, and a TXXX frame without key and value may go or stay
Remaining(ver, fs, key, val, unreadable_stay) ==
    LET stays(frame) ==
            IF frame.id # txxx_id(ver) THEN TRUE
            ELSE IF IsKeyValue(frame.fields) THEN ~Matches(frame, key, val)
            ELSE unreadable_stay
    IN  SelectSeq(fs, stays)

\* C18: remove_txxx(key, value) removes exactly the TXXX (TXX) frames whose
\* key matches and whose value matches, None matching anything; no frame of
\* another key or another ID is removed.
C18_RemoveTxxxRemovesExactlyMatches ==
    [][last'.op = "remove_txxx" =>
          \E unreadable_stay \in BOOLEAN :
              frames' = Remaining(version, frames, last'.key, last'.val, unreadable_stay)]_vars

\* the body of the TRCK frame: the fields as the frame writer emits them
TrackBody(ver, fs) == fields_to_bytes(get_frame_by_id(fs, track_id(ver)).value)

\* the text the TRCK frame is to hold for a pair
PairText(pair) ==
    IF pair.total_tracks.some
    THEN format(pair.track) \o <<47>> \o format(pair.total_tracks.value)
    ELSE format(pair.track)

\* the pair a setter is to leave: the number set, and the other kept
PairAfter(op, n, before) ==
    IF op = "set_track_enc"
    THEN [track |-> n,
          total_tracks |-> IF before.some THEN before.value.total_tracks ELSE NoneOpt]
    ELSE [track |-> IF before.some THEN before.value.track ELSE 1,
          total_tracks |-> Some(n)]

TrackSetterDone ==
    /\ version = "V4"
    /\ last'.op \in {"set_track_enc", "set_total_tracks_enc"}

TrackSetterRight ==
    LET want == PairAfter(last'.op, last'.n, track_pair(version, frames))
    IN  /\ pc' = "track"
        /\ track_pair(version', frames') = Some(want)
        /\ TrackBody(version', frames').panic = FALSE
        /\ TrackBody(version', frames').bytes =
               <<EncodingByte(last'.encoding)>>
                   \o encode_string(PairText(want), last'.encoding).bytes

\* a part of the TRCK text that is no number
NonNumeric(part) == part = <<>> \/ \E i \in 1..Len(part) : part[i] \notin 48..57

HasNonNumericPart(ver, fs) ==
    LET text == text_frame_text(fs, track_id(ver))
    IN  /\ text.some
        /\ \E i \in 1..Len(splitn(text.value)) : NonNumeric(splitn(text.value)[i])

\* C20: on a V4 tag, after set_track_enc(t, E) the track is t and the total
\* is the one held before (absent when there was none), after
\* set_total_tracks_enc(n, E) the total is n and the track is the one held
\* before, the body of the TRCK frame is the encoding byte followed by "t/n"
\* (or "t") in E, and a TRCK text with a non-numeric track or total part makes
\* track and total read as None.
C20_TrackAndTotalShareOneFrame ==
    /\ [](version = "V4" /\ HasNonNumericPart(version, frames) =>
              track_pair(version, frames) = NoneOpt)
    /\ [][TrackSetterDone => TrackSetterRight]_vars

C20_Witness ==
    /\ version = "V4" /\ pc = "track"
    /\ last = [op |-> "set_total_tracks_enc", n |-> 10, encoding |-> "UTF16"]
    /\ track_pair(version, frames) = Some([track |-> 5, total_tracks |-> Some(10)])
    /\ TrackBody(version, frames).bytes = <<1, 255, 254, 53, 0, 47, 0, 49, 0, 48, 0>>

-----------------------------------------------------------------------------
(* Properties of the tag machine.                                          *)

\* every frame of the tag is of the tag's version
WellVersioned(ver, fs) == \A i \in 1..Len(fs) : Frame_version(fs[i]) = ver

\* C4: in every state reached from a new or read tag by add_frame,
\* add_text_frame, add_text_frame_enc, remove_frames_by_id and convert_version
\* calls, every frame of the tag has id.version() equal to the tag's version().
C4_FrameVersionsMatchTag == WellVersioned(version, frames)

UidsOf(fs) == {fs[i].uid : i \in 1..Len(fs)}

PosOf(fs, uid) == CHOOSE i \in 1..Len(fs) : fs[i].uid = uid

\* fs2 keeps the frames of fs1 that survive in their order, after them the new ones
KeepsOrder(fs1, fs2) ==
    \A i, j \in 1..Len(fs2) :
        i < j =>
            /\ (fs2[i].uid \in UidsOf(fs1) /\ fs2[j].uid \in UidsOf(fs1))
                   => PosOf(fs1, fs2[i].uid) < PosOf(fs1, fs2[j].uid)
            /\ ~(fs2[i].uid \notin UidsOf(fs1) /\ fs2[j].uid \in UidsOf(fs1))

\* C6: across every addition, removal by ID and convert_version call, the
\* frames that survive keep their relative order, and a newly added frame is
\* placed after all the frames that were in the tag when it was added.
C6_FrameOrderPreserved == [][KeepsOrder(frames, frames')]_vars

\* a frame of the tag was removed, another one survived, and the frame pushed
\* last stands behind the survivor
C6_Witness ==
    /\ Len(frames) >= 2
    /\ frames[Len(frames)].uid = nextUid - 1
    /\ frames[1].uid < frames[Len(frames)].uid
    /\ \E u \in 1..(nextUid - 1) : u \notin UidsOf(frames)

FramesWithId(fs, id) ==
    LET same(frame) == frame.id = id
    IN  SelectSeq(fs, same)

\* the kinds of the fields of a frame, in order
KindsOf(frame) == [i \in 1..Len(frame.fields) |-> frame.fields[i].kind]

\* the frame is a text frame of the tag's version layout that carries the text
IsTextFrameOf(frame, ver, text) ==
    /\ KindsOf(frame) = IF ver = "V4" THEN <<"TextEncoding", "StringList">>
                        ELSE <<"TextEncoding", "String">>
    /\ LET payload == IF ver = "V4" THEN frame.fields[2].val[1] ELSE frame.fields[2].val
       IN  string_from_encoding(frame.fields[1].val, payload) = Some(text)

\* the last call was add_text_frame or add_text_frame_enc, with a text-frame ID
\* of the tag's version, and it returned normally (true, for add_text_frame)
TextFrameAdded ==
    /\ last.op \in {"add_text_frame", "add_text_frame_enc"}
    /\ is_text(last.id) /\ Id_version(last.id) = version
    /\ IF last.op = "add_text_frame" THEN last.ret ELSE last.ret = "unit"

\* C7: after add_text_frame / add_text_frame_enc with a text-frame ID of the
\* tag's version, the tag holds exactly one frame with that ID, and its fields
\* are {TextEncoding, String} on a V2 or V3 tag and {TextEncoding, StringList}
\* on a V4 tag, carrying the given text.
C7_TextFrameInstalled ==
    TextFrameAdded =>
        /\ Len(FramesWithId(frames, last.id)) = 1
        /\ IsTextFrameOf(FramesWithId(frames, last.id)[1], version, last.text)

\* the name of the counterpart of an ID in the target version: the rename
\* tables between V2 and V3/V4, the catalog of the target between V3 and V4
Counterpart(id, to) ==
    IF Id_version(id) = to THEN Some(Id_name(id))
    ELSE IF to = "V2" THEN convert_id_3_to_2(Id_name(id))
    ELSE IF Id_version(id) = "V2" THEN convert_id_2_to_3(Id_name(id))
    ELSE IF get_frame_info(IdOf(to, Id_name(id))).some THEN Some(Id_name(id))
    ELSE NoneOpt

RECURSIVE ExpectedIds(_, _)
ExpectedIds(fs, to) ==
    IF fs = <<>> THEN <<>>
    ELSE (IF Counterpart(Head(fs).id, to).some
          THEN <<IdOf(to, Counterpart(Head(fs).id, to).value)>>
          ELSE <<>>) \o ExpectedIds(Tail(fs), to)

IdsOf(fs) == [i \in 1..Len(fs) |-> fs[i].id]

\* C8: after convert_version(target) on a tag whose frames are of its version,
\* each frame whose ID has a counterpart in the target version carries that
\* counterpart as an ID of the target version, each frame whose ID has none is
\* removed, and version() is the target.
C8_ConvertVersionRenamesOrDrops ==
    [][(last'.op = "convert_version" /\ WellVersioned(version, frames))
          => /\ version' = last'.to
             /\ IdsOf(frames') = ExpectedIds(frames, last'.to)]_vars

\* the ID exists in V3 and in V4
SharedId(id) == phf_get(FRAME_INFO_V34, Id_name(id)).some

\* the last two calls were convert_version(V3) and convert_version(V4), the
\* first of them on a V4 tag
RoundTripDone ==
    /\ last.op = "convert_version" /\ Len(trail) = 2
    /\ trail[1].version = "V4" /\ trail[2].version = "V3" /\ version = "V4"

PreservedByRoundTrip(frame) ==
    /\ Frame_version(frame) = "V4" /\ SharedId(frame.id)
    /\ Frame_encoding(frame) \in {"Latin1", "UTF16"}

\* C9: convert_version(V3) followed by convert_version(V4) on a V4 tag leaves
\* in the tag, unchanged (same V4 ID, flags and fields), every original frame
\* whose ID exists in V3 and V4 and whose text encoding is Latin-1 or UTF-16.
C9_V4V3V4KeepsSharedFrames ==
    RoundTripDone =>
        \A i \in 1..Len(trail[1].frames) :
            PreservedByRoundTrip(trail[1].frames[i])
                => \E j \in 1..Len(frames) : frames[j] = trail[1].frames[i]

C9_Witness ==
    /\ RoundTripDone
    /\ \E i \in 1..Len(trail[1].frames) : PreservedByRoundTrip(trail[1].frames[i])

\* the UTF-16 (with byte order mark) transcoding of a string payload
Transcoded(encoding, payload) ==
    encode_string(string_from_encoding(encoding, payload).value, "UTF16").bytes

\* field i of the converted frame g is the transcoding of field i of frame f
FieldTranscoded(f, g, i) ==
    CASE f.fields[i].kind \in {"String", "StringFull"} ->
           g.fields[i] = Fld(f.fields[i].kind,
                             Transcoded(Frame_encoding(f), f.fields[i].val))
      [] f.fields[i].kind = "StringList" ->
           g.fields[i] = Fld("StringList",
                             [k \in 1..Len(f.fields[i].val) |->
                                 Transcoded(Frame_encoding(f), f.fields[i].val[k])])
      [] OTHER -> TRUE

\* C10: after a V4 tag is converted to V2 or V3, every frame whose text was
\* UTF-8 or UTF-16BE has its TextEncoding set to UTF-16 and its String,
\* StringFull and StringList payloads replaced by the UTF-16 transcoding of
\* the same text.
C10_DowngradeTranscodesText ==
    [][(/\ last'.op = "convert_version" /\ version = "V4" /\ version' \in {"V2", "V3"}
        /\ WellVersioned(version, frames))
          => \A i \in 1..Len(frames) : \A j \in 1..Len(frames') :
                (/\ frames'[j].uid = frames[i].uid
                 /\ Frame_encoding(frames[i]) \in {"UTF8", "UTF16BE"})
                    => /\ Frame_encoding(frames'[j]) = "UTF16"
                       /\ Len(frames'[j].fields) = Len(frames[i].fields)
                       /\ \A k \in 2..Len(frames[i].fields) :
                              FieldTranscoded(frames[i], frames'[j], k)]_vars

-----------------------------------------------------------------------------
(* id3v1.rs: the ID3v1 and extended ID3v1 readers.                         *)

\* b"TAG" and b"TAG+"
TAG == <<84, 65, 71>>
TAGPLUS == <<84, 65, 71, 43>>

\* const LENGTHS and const XLENGTHS, indexed from 0 by `*self as usize`
LENGTHS == <<30, 30, 30, 4, 30, 0 - 1, 1>>
XLENGTHS == <<60, 60, 60, 30, 6, 6>>

\* enum Fields and enum XFields as usize
FieldsIndex(field) ==
    CASE field = "Title" -> 0 [] field = "Artist" -> 1 [] field = "Album" -> 2
      [] field = "Year" -> 3 [] field = "Comment" -> 4 [] field = "Track" -> 5
      [] field = "Genre" -> 6

XFieldsIndex(field) ==
    CASE field = "XTitle" -> 0 [] field = "XArtist" -> 1 [] field = "XAlbum" -> 2
      [] field = "Speed" -> 3 [] field = "XGenre" -> 4 [] field = "Start" -> 5
      [] field = "End" -> 6

\* Fields::length
Fields_length(field) == LENGTHS[FieldsIndex(field) + 1]

\* XFields::length: the length, or the panic of an index past the array
XFields_length(field) ==
    IF XFieldsIndex(field) + 1 <= Len(XLENGTHS)
    THEN [panic |-> FALSE, len |-> XLENGTHS[XFieldsIndex(field) + 1]]
    ELSE [panic |-> TRUE, len |-> 0]

\* Tag::new of id3v1
V1Tag_new ==
    [title |-> <<>>, artist |-> <<>>, album |-> <<>>, year |-> 0, comment |-> <<>>,
     track |-> 0, genre |-> 0, speed |-> 0, genre_str |-> <<>>, start_time |-> 0,
     end_time |-> 0]

\* reader.read(x) into a buffer of n zero bytes, compared with the signature
probe(reader, signature) == ReadShort(reader, Len(signature)).bytes = signature

is_digit(s) == s >= 48 /\ s <= 57

\* parse_year on four bytes without a sign
parse_year(s) ==
    IF \A i \in 1..Len(s) : is_digit(s[i]) THEN ValueOf(s, 0) ELSE 0

\* (i as char).is_whitespace()
is_whitespace(c) == c \in {9, 10, 11, 12, 13, 32, 133, 160}

\* the u64 arithmetic of parse_time, kept below 2^31: a value above 65535 is
\* held as 65536, which leaves every comparison the function makes as it is
Saturated(n) == Min(n, 65536)

\* the loop of parse_time over s.iter().rev(), from the i-th byte down
RECURSIVE parse_time_from(_, _, _, _, _)
parse_time_from(s, i, state, mult, seconds) ==
    IF i = 0 THEN [returned |-> FALSE, seconds |-> seconds]
    ELSE CASE state = "Seconds" ->
                IF is_digit(s[i])
                THEN parse_time_from(s, i - 1, state, Saturated(mult * 10),
                                     Saturated(seconds + mult * (s[i] - 48)))
                ELSE IF s[i] = 58
                THEN parse_time_from(s, i - 1, "Minutes", 60, seconds)
                ELSE [returned |-> TRUE, seconds |-> 0]
           [] state = "Minutes" ->
                IF is_digit(s[i])
                THEN parse_time_from(s, i - 1, state, Saturated(mult * 60),
                                     Saturated(seconds + mult * (s[i] - 48)))
                ELSE IF is_whitespace(s[i])
                THEN parse_time_from(s, i - 1, "LeadingWhitespace", mult, seconds)
                ELSE parse_time_from(s, i - 1, state, mult, seconds)
           [] state = "LeadingWhitespace" ->
                IF is_whitespace(s[i])
                THEN parse_time_from(s, i - 1, state, mult, seconds)
                ELSE [returned |-> TRUE, seconds |-> 0]

\* Time::new(seconds).unwrap_or(zero), the maximum being Time { value: 60039 }
Time_new(seconds) == IF seconds > 60039 THEN 0 ELSE seconds

\* parse_time: the seconds of the Time returned
parse_time(s) ==
    LET r == parse_time_from(s, Len(s), "Seconds", 1, 0)
    IN  IF r.returned THEN 0
        ELSE IF r.seconds > 65535 THEN 0
        ELSE Time_new(r.seconds)

\* what a reader of id3v1 returns: none (Ok(None) or Ok(false)), tag (Ok(Some(tag))
\* or Ok(true)), err, or the panic
V1Result(kind, tag, rest) == [kind |-> kind, tag |-> tag, rest |-> rest]

\* a reader that takes a tag whatever the length of the stream
id3v1_read_tag_padding(reader) ==
    IF ~probe(reader, TAG) THEN V1Result("none", V1Tag_new, Drop(reader, 3))
    ELSE V1Result("tag", V1Tag_new, Drop(reader, 128))

\* read_tag of id3v1
id3v1_read_tag(reader) ==
    IF ~probe(reader, TAG) THEN V1Result("none", V1Tag_new, Drop(reader, 3))
    ELSE LET body == ReadExact(Drop(reader, 3), 125)
             b == body.bytes
         IN  IF ~body.ok THEN V1Result("err", V1Tag_new, <<>>)
             ELSE V1Result("tag",
                           [V1Tag_new EXCEPT
                              !.title = SubSeq(b, 1, Fields_length("Title")),
                              !.artist = SubSeq(b, 31, 30 + Fields_length("Artist")),
                              !.album = SubSeq(b, 61, 60 + Fields_length("Album")),
                              !.year = parse_year(SubSeq(b, 91, 94)),
                              !.comment = IF b[123] = 0
                                          THEN SubSeq(b, 95, 92 + Fields_length("Comment"))
                                          ELSE SubSeq(b, 95, 94 + Fields_length("Comment")),
                              !.track = IF b[123] = 0 THEN b[124] ELSE 0,
                              !.genre = b[125]],
                           body.rest)

\* maybe_read!: up to n bytes of the reader are appended to the buffer
maybe_read(reader, buf, n) == [buf |-> buf \o Take(reader, n), rest |-> Drop(reader, n)]

\* read_xtag: the lengths come from XTitle, XArtist, XAlbum, Genre of the
\* basic tag, Start and End
read_xtag(reader, tag) ==
    IF ~probe(reader, TAGPLUS) THEN V1Result("none", tag, Drop(reader, 4))
    ELSE LET r0 == Drop(reader, 4)
             t == maybe_read(r0, tag.title, XFields_length("XTitle").len)
             a == maybe_read(t.rest, tag.artist, XFields_length("XArtist").len)
             l == maybe_read(a.rest, tag.album, XFields_length("XAlbum").len)
             s == ReadExact(l.rest, 1)
             g == maybe_read(s.rest, tag.genre_str, Fields_length("Genre"))
             b == maybe_read(g.rest, <<>>, XFields_length("Start").len)
             read == [tag EXCEPT !.title = t.buf, !.artist = a.buf, !.album = l.buf,
                                 !.speed = IF s.ok THEN s.bytes[1] ELSE 0,
                                 !.genre_str = g.buf,
                                 !.start_time = parse_time(b.buf)]
         IN  IF ~s.ok THEN V1Result("err", tag, <<>>)
             ELSE IF XFields_length("End").panic THEN V1Result("panic", read, b.rest)
             ELSE LET e == maybe_read(b.rest, <<>>, XFields_length("End").len)
                  IN  V1Result("tag", [read EXCEPT !.end_time = parse_time(e.buf)], e.rest)

-----------------------------------------------------------------------------
(* The ID3v1 readers applied to streams, and parse_time to time strings.   *)

\* n bytes b
Rep(b, n) == [i \in 1..n |-> b]

\* the lengths of the streams given to read_tag
V1Lengths == {0, 2, 3, 6, 127, 128, 130}

\* streams for read_tag: a signature, title, artist and album of one filler
\* byte, a year, the comment, the guard byte, track and genre, and two bytes
\* more, cut at each of the lengths
V1Inputs ==
    {Take(sig \o Rep(fill, 90) \o year \o Rep(fill, 28) \o <<guard, 7, 12, 1, 2>>, len) :
        sig \in {TAG, <<84, 65, 120>>, <<120, 65, 71>>},
        fill \in {0, 120},
        year \in {<<49, 57, 57, 57>>, <<49, 57, 120, 57>>},
        guard \in {0, 33},
        len \in V1Lengths}

\* the time strings of the extended blocks: "000:10", "001:00", "012:34"
XTimes == {<<48, 48, 48, 58, 49, 48>>, <<48, 48, 49, 58, 48, 48>>,
           <<48, 49, 50, 58, 51, 52>>}

\* streams for read_xtag: a signature and the 223 bytes of the seven fields,
\* whole, cut short, and with a byte more
XInputs ==
    {Take(sig \o Rep(fill, 60) \o Rep(fill + 1, 60) \o Rep(fill + 2, 60) \o <<speed>>
              \o Rep(fill + 3, 30) \o start \o end \o <<1>>, len) :
        sig \in {TAGPLUS, <<84, 65, 71, 32>>},
        fill \in {0, 65},
        speed \in {0, 4},
        start \in XTimes, end \in XTimes,
        len \in {4, 100, 227, 228}}

\* the tags read_xtag extends: a new one, and one with a title of 30 bytes
XTags == {V1Tag_new, [V1Tag_new EXCEPT !.title = Rep(116, 30)]}

\* the bytes of the time strings: '0', '1', '9', ':', ' ' and 'x'
TimeAlphabet == {48, 49, 57, 58, 32, 120}

\* XFields::Start and XFields::End are 6 bytes
TimeLength == 6

InitV1 ==
    /\ \/ pc = "v1" /\ subject = None /\ stream \in V1Inputs
       \/ pc = "xtag" /\ subject \in XTags /\ stream \in XInputs
       \/ pc = "time" /\ subject = None /\ stream \in [1..TimeLength -> TimeAlphabet]
    /\ outcome = None
    /\ version = "V4" /\ frames = <<>> /\ nextUid = 1 /\ last = None /\ trail = <<>>
    /\ raw = <<>> /\ ui = unsynchronized /\ unsynced = <<>>
    /\ di = deunsynchronized /\ resynced = <<>>

V1ReadTag ==
    /\ pc = "v1"
    /\ outcome' = id3v1_read_tag(stream)
    /\ pc' = "v1_done"
    /\ UNCHANGED <<subject, stream>>
    /\ UNCHANGED tagVars /\ UNCHANGED unsyncVars

ReadXtag ==
    /\ pc = "xtag"
    /\ outcome' = read_xtag(stream, subject)
    /\ pc' = "xtag_done"
    /\ UNCHANGED <<subject, stream>>
    /\ UNCHANGED tagVars /\ UNCHANGED unsyncVars

ParseTime ==
    /\ pc = "time"
    /\ outcome' = parse_time(stream)
    /\ pc' = "time_done"
    /\ UNCHANGED <<subject, stream>>
    /\ UNCHANGED tagVars /\ UNCHANGED unsyncVars

NextV1 == V1ReadTag \/ ReadXtag \/ ParseTime

SpecV1 == InitV1 /\ [][NextV1]_vars

\* C21: read_tag of id3v1 returns Ok(None) when the first three bytes are
\* not "TAG", an error when the stream starts with "TAG" and ends before the
\* 128 bytes of the record, and Ok(Some(tag)) otherwise.
C21_V1ReadTagClassifies ==
    pc = "v1_done" =>
        outcome.kind = IF Take(stream, 3) # TAG THEN "none"
                       ELSE IF Len(stream) < 128 THEN "err"
                       ELSE "tag"

C21_Witness ==
    /\ pc = "v1_done"
    /\ Take(stream, 3) = TAG /\ Len(stream) = 6
    /\ outcome.kind = "err"

\* C28: read_xtag on a block that starts with "TAG+" consumes the 223 bytes
\* after the signature as xtitle 60, xartist 60, xalbum 60, speed 1, xgenre 30,
\* start_time 6, end_time 6, assigns each to its field of the tag (the three
\* strings extending title, artist and album), and returns Ok(true).
C28_XtagReads223Bytes ==
    pc = "xtag_done" /\ Take(stream, 4) = TAGPLUS /\ Len(stream) >= 227 =>
        /\ outcome.kind = "tag"
        /\ outcome.rest = Drop(stream, 227)
        /\ outcome.tag =
              [subject EXCEPT
                 !.title = subject.title \o SubSeq(stream, 5, 64),
                 !.artist = subject.artist \o SubSeq(stream, 65, 124),
                 !.album = subject.album \o SubSeq(stream, 125, 184),
                 !.speed = stream[185],
                 !.genre_str = subject.genre_str \o SubSeq(stream, 186, 215),
                 !.start_time = parse_time(SubSeq(stream, 216, 221)),
                 !.end_time = parse_time(SubSeq(stream, 222, 227))]

\* the string is spaces, then digits, a colon and two digits: "mmm:ss"
IsMinutesSeconds(s) ==
    /\ s[4] = 58 /\ is_digit(s[3]) /\ is_digit(s[5]) /\ is_digit(s[6])
    /\ \E k \in 0..2 : /\ \A i \in 1..k : is_whitespace(s[i])
                       /\ \A i \in (k + 1)..3 : is_digit(s[i])

\* the digits of the string before and after the colon, as numbers
DigitsOf(s) == SelectSeq(s, is_digit)

MinutesOf(s) == ValueOf(DigitsOf(SubSeq(s, 1, 3)), 0)
SecondsOf(s) == ValueOf(SubSeq(s, 5, 6), 0)

\* C30: parse_time returns 60 * mmm + ss, at most 60039, for a string
\* "mmm:ss" of digits that whitespace may precede, zero for a string with a
\* character that is no digit, colon or whitespace, and never more than 60039.
C30_ParseTimeMinutesSeconds ==
    pc = "time_done" =>
        /\ IsMinutesSeconds(stream) =>
              outcome = Min(60 * MinutesOf(stream) + SecondsOf(stream), 60039)
        /\ (\E i \in 1..Len(stream) :
               ~is_digit(stream[i]) /\ stream[i] # 58 /\ ~is_whitespace(stream[i])) =>
              outcome = 0
        /\ outcome <= 60039

(***************************************************************************)
(* Field parsing on its own: Field::parse and Field::read_until_delim are  *)
(* applied to a reader, a field kind, an encoding, a budget and the        *)
(* is_last flag drawn from bounded sets.                                   *)
(***************************************************************************)
FieldAlphabet == {0, 65}

FieldReaders == UNION {[1..n -> FieldAlphabet] : n \in 0..MaxLen}

Budgets == 0..(MaxLen + 1)

StringKinds == {"Latin1", "String", "Latin1List", "StringList"}

FieldCalls ==
    [ftype : StringKinds, encoding : Encodings \cup {"none"},
     len : Budgets, is_last : BOOLEAN]

DelimCalls == [delim_len : 0..2, max_len : Budgets]

InitField ==
    /\ \/ pc = "field" /\ subject \in FieldCalls
       \/ pc = "delim" /\ subject \in DelimCalls
    /\ stream \in FieldReaders
    /\ outcome = None
    /\ version = "V4" /\ frames = <<>> /\ nextUid = 1 /\ last = None /\ trail = <<>>
    /\ raw = <<>> /\ ui = unsynchronized /\ unsynced = <<>>
    /\ di = deunsynchronized /\ resynced = <<>>

FieldParse ==
    /\ pc = "field"
    /\ outcome' = Field_parse(stream, subject.ftype, subject.encoding,
                              subject.len, subject.is_last)
    /\ pc' = "field_done"
    /\ UNCHANGED <<subject, stream>>
    /\ UNCHANGED tagVars /\ UNCHANGED unsyncVars

ReadUntilDelim ==
    /\ pc = "delim"
    /\ outcome' = read_until_delim(stream, subject.delim_len, subject.max_len)
    /\ pc' = "delim_done"
    /\ UNCHANGED <<subject, stream>>
    /\ UNCHANGED tagVars /\ UNCHANGED unsyncVars

NextField == FieldParse \/ ReadUntilDelim

SpecField == InitField /\ [][NextField]_vars

\* the delimiter length the encoding of a stringlike field calls for
DelimiterOf(ftype, encoding) ==
    IF ftype \in {"Latin1", "Latin1List"} THEN 1 ELSE delim_len(encoding)

\* an aligned run of dlen zero bytes occurs in the bytes
HasDelimiter(bytes, dlen) ==
    \E k \in 0..Len(bytes) :
        /\ k * dlen + dlen <= Len(bytes)
        /\ \A j \in 1..dlen : bytes[k * dlen + j] = 0

\* the field is a delimited string whose budget is the rest of the frame and
\* holds no delimiter
BudgetUsedUp ==
    /\ pc = "field_done"
    /\ subject.ftype \in {"Latin1", "String"}
    /\ subject.ftype = "String" => subject.encoding # "none"
    /\ subject.len = Len(stream)
    /\ ~HasDelimiter(stream, DelimiterOf(subject.ftype, subject.encoding))

\* C22: a delimited string field (Latin1, String) that is not the last field
\* of its frame is an error whenever the frame's remaining bytes are used up
\* before a delimiter is found; as the last field it is accepted and its
\* value is all the remaining bytes.
C22_DelimiterRequiredUnlessLast ==
    BudgetUsedUp =>
        IF subject.is_last
        THEN outcome.kind = "ok" /\ outcome.field = Fld(subject.ftype, stream)
        ELSE outcome.kind = "err"

C22_Witness ==
    /\ BudgetUsedUp
    /\ subject.ftype = "String" /\ subject.encoding = "UTF16"
    /\ ~subject.is_last
    /\ stream = <<65, 0, 0, 65>>
    /\ outcome.kind = "err"

\* the strings between the delimiters of the bytes, in order
RECURSIVE SplitAt(_, _, _)
SplitAt(bytes, dlen, cur) ==
    IF bytes = <<>> THEN <<cur>>
    ELSE LET unit == Take(bytes, dlen)
         IN  IF Len(unit) = dlen /\ \A j \in 1..dlen : unit[j] = 0
             THEN <<cur>> \o SplitAt(Drop(bytes, dlen), dlen, <<>>)
             ELSE SplitAt(Drop(bytes, dlen), dlen, cur \o unit)

\* C23: a list field (Latin1List, StringList) parses to the strings obtained
\* by splitting its bytes at every delimiter of the encoding, in order, and
\* to the empty list when its payload is zero bytes.
C23_ListsSplitAtDelimiters ==
    /\ pc = "field_done"
    /\ subject.ftype \in {"Latin1List", "StringList"}
    /\ subject.ftype = "StringList" => subject.encoding # "none"
    /\ subject.len = Len(stream)
    => /\ outcome.kind = "ok"
       /\ outcome.field =
             Fld(subject.ftype,
                 IF stream = <<>> THEN <<>>
                 ELSE SplitAt(stream,
                              DelimiterOf(subject.ftype, subject.encoding), <<>>))

\* C25: read_until_delim returns for every reader, delimiter length and
\* budget, the end of input before a delimiter and before the budget included.
C25_ReadUntilDelimReturns ==
    pc = "delim_done" => ~outcome.hang

(***************************************************************************)
(* BigNum on its own: a number is parsed from a decimal string or built    *)
(* from limbs by BigNum::new, and incr is applied to it a bounded number   *)
(* of times; k counts the calls of incr.                                   *)
(***************************************************************************)
MaxLimbs == 2

MaxDigits == 4

MaxIncr == 3

\* BigNum::incr from limb i on, without the push of the carry out of the top
\* limb
RECURSIVE incr_from_no_carry(_, _)
incr_from_no_carry(data, i) ==
    IF i > Len(data) THEN data
    ELSE IF data[i] + 1 = 100
         THEN incr_from_no_carry([data EXCEPT ![i] = 0], i + 1)
         ELSE [data EXCEPT ![i] = data[i] + 1]

BigNum_incr_no_carry(data) == incr_from_no_carry(data, 1)

\* BigNum::incr from limb i on: the loop over the limbs and the carry pushed
\* at its end
RECURSIVE incr_from(_, _)
incr_from(data, i) ==
    IF i > Len(data) THEN Append(data, 1)
    ELSE IF data[i] + 1 = 100
         THEN incr_from([data EXCEPT ![i] = 0], i + 1)
         ELSE [data EXCEPT ![i] = data[i] + 1]

\* BigNum::incr
BigNum_incr(data) == incr_from(data, 1)

\* the loop of BigNum::from_str over the characters, last first
RECURSIVE from_str_from(_, _, _, _)
from_str_from(s, i, ones, data) ==
    IF i = 0
    THEN [ok |-> TRUE,
          data |-> drop_leading_zeros(IF ones # NoByte THEN Append(data, ones)
                                      ELSE data)]
    ELSE IF ~is_digit(s[i]) THEN [ok |-> FALSE, data |-> <<>>]
    ELSE IF ones # NoByte
         THEN from_str_from(s, i - 1, NoByte, Append(data, ones + 10 * (s[i] - 48)))
         ELSE from_str_from(s, i - 1, s[i] - 48, data)

\* BigNum::from_str
from_str(s) == from_str_from(s, Len(s), NoByte, BigNum_new(<<>>))

\* the decimal digits of a number, as Display prints an integer
RECURSIVE Decimal(_)
Decimal(n) ==
    IF n < 10 THEN <<48 + n>> ELSE Decimal(n \div 10) \o <<48 + (n % 10)>>

\* write!(fmt, "{:02}", i)
Padded(n) == IF n < 10 THEN <<48>> \o Decimal(n) ELSE Decimal(n)

\* the limbs below the top one, most significant first
RECURSIVE LowLimbs(_, _)
LowLimbs(data, i) ==
    IF i < 1 THEN <<>> ELSE Padded(data[i]) \o LowLimbs(data, i - 1)

\* Display for BigNum
to_string(data) ==
    IF Len(data) = 0 THEN Decimal(0)
    ELSE Decimal(data[Len(data)]) \o LowLimbs(data, Len(data) - 1)

Limbs == {0, 1, 98, 99}

DigitChars == {48, 49, 57, 120}

InitBigNum ==
    /\ \/ /\ pc = "str"
          /\ stream \in UNION {[1..n -> DigitChars] : n \in 0..MaxDigits}
          /\ subject = None
       \/ /\ pc = "num"
          /\ stream = <<>>
          /\ \E d \in UNION {[1..n -> Limbs] : n \in 0..MaxLimbs} :
                subject = [data |-> BigNum_new(d), k |-> 0, parsed |-> FALSE]
    /\ outcome = None
    /\ version = "V4" /\ frames = <<>> /\ nextUid = 1 /\ last = None /\ trail = <<>>
    /\ raw = <<>> /\ ui = unsynchronized /\ unsynced = <<>>
    /\ di = deunsynchronized /\ resynced = <<>>

FromStr ==
    /\ pc = "str"
    /\ LET r == from_str(stream)
       IN  IF r.ok
           THEN /\ subject' = [data |-> r.data, k |-> 0, parsed |-> TRUE]
                /\ outcome' = to_string(r.data)
                /\ pc' = "num"
           ELSE /\ subject' = subject
                /\ outcome' = outcome
                /\ pc' = "str_err"
    /\ UNCHANGED stream
    /\ UNCHANGED tagVars /\ UNCHANGED unsyncVars

Incr ==
    /\ pc = "num"
    /\ subject.k < MaxIncr
    /\ subject' = [subject EXCEPT !.data = BigNum_incr(subject.data), !.k = @ + 1]
    /\ outcome' = to_string(subject'.data)
    /\ UNCHANGED <<pc, stream>>
    /\ UNCHANGED tagVars /\ UNCHANGED unsyncVars

NextBigNum == FromStr \/ Incr

SpecBigNum == InitBigNum /\ [][NextBigNum]_vars

\* all limbs are below 100 and the top limb is not zero
WellFormed(data) ==
    /\ \A i \in 1..Len(data) : data[i] < 100
    /\ data # <<>> => data[Len(data)] # 0

\* the value of the limbs, least significant first, two decimal digits each
RECURSIVE LimbValue(_)
LimbValue(data) ==
    IF data = <<>> THEN 0 ELSE data[1] + 100 * LimbValue(Tail(data))

\* the value of a string of decimal digits
RECURSIVE DigitsValue(_)
DigitsValue(s) ==
    IF s = <<>> THEN 0
    ELSE 10 * DigitsValue(SubSeq(s, 1, Len(s) - 1)) + (s[Len(s)] - 48)

IncrStep == pc = "num" /\ subject'.k = subject.k + 1 /\ WellFormed(subject.data)

IncrRight ==
    /\ WellFormed(subject'.data)
    /\ LimbValue(subject'.data) = LimbValue(subject.data) + 1
    /\ (\A i \in 1..Len(subject.data) : subject.data[i] = 99)
          => subject'.data = [i \in 1..Len(subject.data) |-> 0] \o <<1>>

\* C29: incr takes a BigNum whose limbs are all below 100 with no leading
\* zero limb and whose value is v to one whose value is v + 1, again with all
\* limbs below 100 and no leading zero limb, a carry out of the top limb
\* appending a limb equal to 1; so a parsed decimal string after k calls of
\* incr prints as the decimal digits of the parsed value plus k.
C29_IncrAddsOne ==
    /\ [](pc = "num" /\ subject.parsed =>
             outcome = Decimal(DigitsValue(stream) + subject.k))
    /\ [][IncrStep => IncrRight]_vars

C29_Witness ==
    /\ pc = "num"
    /\ stream = <<48, 48, 57, 57>>
    /\ subject.k = 1
    /\ subject.data = <<0, 1>>
    /\ outcome = <<49, 48, 48>>

====
